---- MODULE Spec2Model ----
(***************************************************************************)
(* Resilience layer (src/src/util/retryUtils.js) and tiered cache          *)
(* (src/src/util/cacheUtils.js) of the playlist manager.                   *)
(*                                                                         *)
(* The specifications of the module:                                       *)
(*   SpecRetry   - one call of retryWithBackoff                            *)
(*   SpecBreaker - one CircuitBreaker used by interleaved callers          *)
(*   SpecRecover - SpecBreaker with operations that stop failing, and the  *)
(*                 fairness of callers, operations and clock               *)
(*   SpecGated   - one call of retryWithBackoff whose operation runs       *)
(*                 through a CircuitBreaker                                *)
(*   SpecCache   - the global HybridCache used through cacheManager        *)
(*   SpecWithCache - the functions withCache wraps, on the global cache    *)
(*   SpecFaulty  - SpecWithCache on a storage whose items get corrupted    *)
(*   SpecFallback - the wrapped functions that substitute an empty result  *)
(*   SpecMemory  - a MemoryCache used on its own                           *)
(*   SpecDurable - a PersistentCache used on its own                       *)
(*   SpecDelay   - calculateDelay and addJitter applied to arguments       *)
(* Time is an integer clock (Date.now()); durations are scaled to ticks.   *)
(***************************************************************************)
EXTENDS Integers, Sequences, FiniteSets, TLC

VARIABLES
    \* ---- retryWithBackoff: one call -------------------------------------
    rPolicy,        \* the merged config { ...DEFAULT_RETRY_CONFIG, ...config }
    rPc,            \* "idle" | "loop" | "awaitOp" | "sleeping" | "resolved" | "rejected"
    rAttempt,       \* the loop variable `attempt` (0-based)
    rLastError,     \* the local `lastError`
    rOutcome,       \* what the returned promise settled with (value or error)
    rCalls,         \* history: number of invocations of operation()
    rInFlight,      \* history: invocations of operation() not yet settled
    rSleeps,        \* history: number of backoff sleeps started
    rElapsed,       \* history: total time slept
    rThrown,        \* history: the error thrown by the latest invocation
    rFirstError,    \* history: the error thrown by the first invocation
    rAllRetryable,  \* history: every failure so far satisfied retryCondition
    \* ---- CircuitBreaker: one instance ----------------------------------
    cbCfg,          \* constructor result: failureThreshold, resetTimeout
    cbState,        \* this.state
    cbFailureCount, \* this.failureCount
    cbLastFailureTime, \* this.lastFailureTime (NoTime = null)
    cbSuccessCount, \* this.successCount
    cbNow,          \* Date.now()
    cbPc,           \* per caller: "idle" | "awaitOp"
    cbEvent,        \* history: the latest step, its caller, the state it found
    cbConsec,       \* history: failed calls in a row since the breaker was
                    \*   CLOSED with failureCount = 0 (NoRun: not tracked)
    cbHalfOpenOks,  \* history: successful calls completed in HALF_OPEN since
                    \*   the breaker last entered HALF_OPEN
    \* ---- globalCache (HybridCache) and withCache -----------------------
    memoryCache,    \* MemoryCache.cache: the Map, in insertion order
    localStorage,   \* the items stored under storagePrefix + key
    metadata,       \* the object stored under metadataKey, in key order
    stats,          \* HybridCache.stats
    cNow,           \* Date.now()
    wcPc,           \* per caller of a wrapped function: "idle" | "awaitFn"
    wcKey,          \* per caller: the cacheKey of the call in progress
    cEvent,         \* history: the latest step and what it returned
    lastSet,        \* history: per key, the latest HybridCache.set
    cOps,           \* history: number of cache operations so far
    cBudget,        \* the number of cache operations the run is followed for
    \* ---- a MemoryCache of its own: new MemoryCache(maxSize) --------------
    mcMaxSize,      \* this.maxSize
    mcCache,        \* this.cache: the Map, in insertion order
    mcNow,          \* Date.now()
    mcEvent,        \* history: the latest call, and the keys it removed
    mcOrder,        \* history: the keys held, least recently accessed first
                    \*   (accessed: inserted as a new key, or returned by get)
    mcOps,          \* history: number of calls so far
    \* ---- calculateDelay and addJitter, applied to arguments ---------------
    dArgs,          \* attempt, baseDelay, backoffFactor, maxDelay
    dDelay,         \* calculateDelay(...) of dArgs (NoDelay: not yet computed)
    dPrev,          \* history: the delay computed for attempt - 1
    dJittered,      \* addJitter(dDelay) (NoDelay: not yet computed)
    \* ---- retryWithBackoff(() => breaker.execute(op), policy) ------------
    gOpCalls,       \* history: number of invocations of op
    gOpenedAt,      \* history: the number of the failure of op that first
                    \*   opened the breaker (0: it has not opened)
    gWithin,        \* history: every attempt since then was made no later
                    \*   than resetTimeout after the latest failure of op
    \* ---- the operations the breaker wraps -------------------------------
    cbHealed        \* every operation that settles from now on succeeds

retryVars == <<rPolicy, rPc, rAttempt, rLastError, rOutcome, rCalls, rInFlight,
               rSleeps, rElapsed, rThrown, rFirstError, rAllRetryable>>
breakerVars == <<cbCfg, cbState, cbFailureCount, cbLastFailureTime,
                 cbSuccessCount, cbNow, cbPc, cbEvent, cbConsec, cbHalfOpenOks>>
cacheVars == <<memoryCache, localStorage, metadata, stats, cNow, wcPc, wcKey,
               cEvent, lastSet, cOps, cBudget>>
memVars == <<mcMaxSize, mcCache, mcNow, mcEvent, mcOrder, mcOps>>
delayVars == <<dArgs, dDelay, dPrev, dJittered>>
gateVars == <<gOpCalls, gOpenedAt, gWithin>>
healVars == <<cbHealed>>
vars == <<retryVars, breakerVars, cacheVars, memVars, delayVars, gateVars,
          healVars>>

Min(a, b) == IF a < b THEN a ELSE b

RECURSIVE Pow(_, _)
Pow(b, e) == IF e = 0 THEN 1 ELSE b * Pow(b, e - 1)

(***************************************************************************)
(* retryUtils.js : retry with exponential backoff                          *)
(***************************************************************************)

\* Largest maxAttempts of the policies explored.
MaxAttempts == 3

NoError == [response |-> FALSE, status |-> -1]
NetworkError == [response |-> FALSE, status |-> 0]
Statuses == {302, 404, 429, 499, 500}
\* new RetryableError(message, null, 0, false): an application-level error
\* that says of itself that it is not retryable. It has no `response`.
NonRetryableAppError == [response |-> FALSE, status |-> 0, isRetryable |-> FALSE]
\* What operation() can throw: an error without a response, one that
\* carries an HTTP-like status, or an application-level error.
Errors ==
    {NetworkError, NonRetryableAppError}
        \cup {[response |-> TRUE, status |-> s] : s \in Statuses}
Values == {"v1", "v2"}

\* Mutant: rate limiting (429) is not retried.
DefaultRetryConditionNo429(error) ==
    IF ~error.response THEN TRUE
    ELSE error.status >= 500

\* Mutant: every 4xx status is retried as well.
DefaultRetryConditionRetries4xx(error) ==
    IF ~error.response THEN TRUE
    ELSE error.status >= 400

\* DEFAULT_RETRY_CONFIG.retryCondition
DefaultRetryCondition(error) ==
    IF ~error.response THEN TRUE
    ELSE error.status >= 500 \/ error.status = 429

\* The retryCondition of the merged config: the default one, or one the
\* caller passed ("always" / "never" stand for caller-supplied predicates).
RetryCondition(policy, error) ==
    CASE policy.retryCondition = "default" -> DefaultRetryCondition(error)
      [] policy.retryCondition = "always" -> TRUE
      [] OTHER -> FALSE

\* Mutant: the attempt number is taken as 1-based.
calculateDelayOneBased(attempt, baseDelay, backoffFactor, maxDelay) ==
    Min(baseDelay * Pow(backoffFactor, attempt + 1), maxDelay)

\* Mutant: the delay is not capped.
calculateDelayUncapped(attempt, baseDelay, backoffFactor, maxDelay) ==
    baseDelay * Pow(backoffFactor, attempt)

calculateDelay(attempt, baseDelay, backoffFactor, maxDelay) ==
    Min(baseDelay * Pow(backoffFactor, attempt), maxDelay)

\* addJitter(delay): delay + delay * 0.1 * Math.random(), Math.random() in
\* [0, 1): the results on the integer grid are delay + j with 10 * j < delay
\* (j = 0 when delay = 0).
\* Mutant: the jitter is two-sided.
addJitterTwoSided(delay) ==
    {delay - j : j \in {i \in 0..delay : i = 0 \/ 10 * i < delay}}
        \cup {delay + j : j \in {i \in 0..delay : i = 0 \/ 10 * i < delay}}

\* Mutant: the jitter factor is 1 instead of 0.1.
addJitterFull(delay) ==
    {delay + j : j \in {i \in 0..delay : i = 0 \/ i < delay}}

addJitter(delay) ==
    {delay + j : j \in {i \in 0..delay : i = 0 \/ 10 * i < delay}}

Policies ==
    [maxAttempts : 1..MaxAttempts,
     baseDelay : {10},
     backoffFactor : {1, 2},
     maxDelay : {30, 100},
     retryCondition : {"default", "always", "never"}]

InitRetry ==
    /\ rPolicy = [maxAttempts |-> 3, baseDelay |-> 10, backoffFactor |-> 2,
                  maxDelay |-> 30, retryCondition |-> "default"]
    /\ rPc = "idle"
    /\ rAttempt = 0
    /\ rLastError = NoError
    /\ rOutcome = [kind |-> "none"]
    /\ rCalls = 0
    /\ rInFlight = 0
    /\ rSleeps = 0
    /\ rElapsed = 0
    /\ rThrown = NoError
    /\ rFirstError = NoError
    /\ rAllRetryable = TRUE

\* retryWithBackoff(operation, config): destructure the merged config.
RetryCall(policy) ==
    /\ rPc = "idle"
    /\ rPolicy' = policy
    /\ rPc' = "loop"
    /\ rAttempt' = 0
    /\ rLastError' = NoError
    /\ UNCHANGED <<rOutcome, rCalls, rInFlight, rSleeps, rElapsed, rThrown,
                   rFirstError, rAllRetryable>>
    /\ UNCHANGED <<breakerVars, cacheVars, memVars, delayVars,
                   gateVars, healVars>>

\* The head of the for loop: `attempt < maxAttempts`, then `await operation()`;
\* when the loop condition fails, `throw lastError`.
RetryLoop ==
    /\ rPc = "loop"
    /\ IF rAttempt < rPolicy.maxAttempts
       THEN /\ rPc' = "awaitOp"
            /\ rCalls' = rCalls + 1
            /\ rInFlight' = rInFlight + 1
            /\ UNCHANGED rOutcome
       ELSE /\ rPc' = "rejected"
            /\ rOutcome' = [kind |-> "error", error |-> rLastError]
            /\ UNCHANGED <<rCalls, rInFlight>>
    /\ UNCHANGED <<rPolicy, rAttempt, rLastError, rSleeps, rElapsed, rThrown,
                   rFirstError, rAllRetryable>>
    /\ UNCHANGED <<breakerVars, cacheVars, memVars, delayVars,
                   gateVars, healVars>>

\* operation() resolves: `return result`.
RetryOpResolve(v) ==
    /\ rPc = "awaitOp"
    /\ rPc' = "resolved"
    /\ rOutcome' = [kind |-> "value", value |-> v]
    /\ rInFlight' = rInFlight - 1
    /\ UNCHANGED <<rPolicy, rAttempt, rLastError, rCalls, rSleeps, rElapsed,
                   rThrown, rFirstError, rAllRetryable>>
    /\ UNCHANGED <<breakerVars, cacheVars, memVars, delayVars,
                   gateVars, healVars>>

\* Mutant: the last attempt is recognised one attempt too early.
RetryBreaksEarly(policy, attempt, error) ==
    \/ attempt = policy.maxAttempts - 2
    \/ ~RetryCondition(policy, error)

\* Whether the catch block leaves the loop with `break`.
RetryBreaks(policy, attempt, error) ==
    \/ attempt = policy.maxAttempts - 1
    \/ ~RetryCondition(policy, error)

\* Mutant: lastError keeps the first error caught.
CaughtErrorKeepsFirst(lastError, error) ==
    IF lastError = NoError THEN error ELSE lastError

\* `lastError = error` in the catch block: the value lastError takes.
CaughtError(lastError, error) == error

\* operation() rejects: the catch block; after a `break`, `throw lastError`.
RetryOpReject(error) ==
    /\ rPc = "awaitOp"
    /\ rInFlight' = rInFlight - 1
    /\ rLastError' = CaughtError(rLastError, error)
    /\ rThrown' = error
    /\ rFirstError' = IF rCalls = 1 THEN error ELSE rFirstError
    /\ rAllRetryable' = (rAllRetryable /\ RetryCondition(rPolicy, error))
    /\ IF RetryBreaks(rPolicy, rAttempt, error)
       THEN /\ rPc' = "rejected"
            /\ rOutcome' = [kind |-> "error", error |-> rLastError']
            /\ UNCHANGED <<rSleeps, rElapsed>>
       ELSE /\ rPc' = "sleeping"
            /\ rSleeps' = rSleeps + 1
            /\ \E d \in addJitter(calculateDelay(rAttempt, rPolicy.baseDelay,
                                   rPolicy.backoffFactor, rPolicy.maxDelay)) :
                   rElapsed' = rElapsed + d
            /\ UNCHANGED rOutcome
    /\ UNCHANGED <<rPolicy, rAttempt, rCalls>>
    /\ UNCHANGED <<breakerVars, cacheVars, memVars, delayVars,
                   gateVars, healVars>>

\* The sleep timer fires: `attempt++` and back to the loop head.
RetrySleepDone ==
    /\ rPc = "sleeping"
    /\ rPc' = "loop"
    /\ rAttempt' = rAttempt + 1
    /\ UNCHANGED <<rPolicy, rLastError, rOutcome, rCalls, rInFlight, rSleeps,
                   rElapsed, rThrown, rFirstError, rAllRetryable>>
    /\ UNCHANGED <<breakerVars, cacheVars, memVars, delayVars,
                   gateVars, healVars>>

\* The catch block of a call site that runs its operation through
\* retryWithBackoff (Spotify.search, getTrack, getUserPlaylists,
\* getUserProfile, savePlaylist):
\*   throw new RetryableError(message, error, RETRY_CONFIGS.X.maxAttempts)
\* The fourth argument is not passed: isRetryable takes its default, true.
CallSiteCatch(policy, error) ==
    [name |-> "RetryableError", originalError |-> error,
     attempts |-> policy.maxAttempts, isRetryable |-> TRUE]

\* What such a call site delivers to its caller once retryWithBackoff has
\* settled: the value, or the error its catch block throws.
Delivered ==
    IF rOutcome.kind = "error"
    THEN [kind |-> "error", error |-> CallSiteCatch(rPolicy, rOutcome.error)]
    ELSE rOutcome

NextRetry ==
    \/ \E policy \in Policies : RetryCall(policy)
    \/ RetryLoop
    \/ \E v \in Values : RetryOpResolve(v)
    \/ \E error \in Errors : RetryOpReject(error)
    \/ RetrySleepDone

(***************************************************************************)
(* retryUtils.js : CircuitBreaker                                          *)
(***************************************************************************)

\* Callers that interleave on the one breaker.
NumCallers == 2
\* The clock stops here.
MaxNow == 5
\* failureCount is not followed beyond this value.
MaxFailures == 7

CbCallers == 1..NumCallers
\* null, for a time
NoTime == -1
\* The value of cbConsec while no run of failures is being counted.
NoRun == NoTime

\* config.failureThreshold || 5
DefaultFailureThreshold == 5
\* config.resetTimeout || 60000, in ticks of the model's clock
DefaultResetTimeout == 2
\* `this.successCount >= 3` in onSuccess
HalfOpenSuccesses == 3

\* The constructor's argument; 0 stands for an option that is not given.
\* halfOpenSuccessThreshold is an option the constructor never reads.
CbConfigs ==
    [failureThreshold : {0, 1, 2},
     resetTimeout : {0, 1},
     halfOpenSuccessThreshold : {0, 2}]

\* this.failureThreshold = config.failureThreshold || 5
FailureThreshold ==
    IF cbCfg.failureThreshold = 0 THEN DefaultFailureThreshold
    ELSE cbCfg.failureThreshold

\* this.resetTimeout = config.resetTimeout || 60000
ResetTimeout ==
    IF cbCfg.resetTimeout = 0 THEN DefaultResetTimeout ELSE cbCfg.resetTimeout

\* The constructor's field initialisers.
CbConstructed ==
    /\ cbState = "CLOSED"
    /\ cbFailureCount = 0
    /\ cbLastFailureTime = NoTime
    /\ cbSuccessCount = 0
    /\ cbNow = 0
    /\ cbPc = [c \in CbCallers |-> "idle"]
    /\ cbEvent = [kind |-> "new", caller |-> 0, from |-> "CLOSED"]
    /\ cbConsec = 0
    /\ cbHalfOpenOks = 0

InitBreaker ==
    /\ cbCfg \in CbConfigs
    /\ CbConstructed

\* Mutant: the cooldown ends when resetTimeout is reached, not exceeded.
CbResetElapsedAtTimeout == cbNow - cbLastFailureTime >= ResetTimeout

\* Mutant: the cooldown lasts one tick longer.
CbResetElapsedLate == cbNow - cbLastFailureTime > ResetTimeout + 1

\* Mutant: the operands of the subtraction are swapped.
CbResetElapsedSwapped == cbLastFailureTime - cbNow > ResetTimeout

\* Mutant: the cooldown lasts half as long.
CbResetElapsedHalfWay == 2 * (cbNow - cbLastFailureTime) > ResetTimeout

\* execute(): `Date.now() - this.lastFailureTime > this.resetTimeout`
CbResetElapsed == cbNow - cbLastFailureTime > ResetTimeout

\* execute(operation) up to `await operation()`: the gate.
CbExecute(c) ==
    /\ cbPc[c] = "idle"
    /\ IF cbState = "OPEN"
       THEN IF CbResetElapsed
            THEN /\ cbState' = "HALF_OPEN"
                 /\ cbSuccessCount' = 0
                 /\ cbHalfOpenOks' = 0
                 /\ cbPc' = [cbPc EXCEPT ![c] = "awaitOp"]
                 /\ cbEvent' = [kind |-> "execute", caller |-> c, from |-> cbState]
            ELSE \* throw new Error('Circuit breaker is OPEN ...')
                 /\ cbEvent' = [kind |-> "rejected", caller |-> c, from |-> cbState]
                 /\ UNCHANGED <<cbState, cbSuccessCount, cbHalfOpenOks, cbPc>>
       ELSE /\ cbPc' = [cbPc EXCEPT ![c] = "awaitOp"]
            /\ cbEvent' = [kind |-> "execute", caller |-> c, from |-> cbState]
            /\ UNCHANGED <<cbState, cbSuccessCount, cbHalfOpenOks>>
    /\ UNCHANGED <<cbCfg, cbFailureCount, cbLastFailureTime, cbNow, cbConsec>>
    /\ UNCHANGED <<retryVars, cacheVars, memVars, delayVars,
                   gateVars, healVars>>

\* onSuccess(): the successCount it leaves.
onSuccessCount(state, successCount) ==
    IF state = "HALF_OPEN" THEN successCount + 1 ELSE successCount

\* Mutant: the breaker closes only after more than three successes.
onSuccessStateLate(state, successCount) ==
    IF state = "HALF_OPEN" /\ successCount + 1 > HalfOpenSuccesses
    THEN "CLOSED" ELSE state

\* Mutant: a success never closes the breaker.
onSuccessStateStays(state, successCount) == state

\* onSuccess(): the state it leaves.
onSuccessState(state, successCount) ==
    IF state = "HALF_OPEN" /\ successCount + 1 >= HalfOpenSuccesses
    THEN "CLOSED" ELSE state

\* The wrapped operation resolves: onSuccess(), then `return result`.
CbOpSuccess(c) ==
    /\ cbPc[c] = "awaitOp"
    /\ cbFailureCount' = 0
    /\ cbSuccessCount' = onSuccessCount(cbState, cbSuccessCount)
    /\ cbState' = onSuccessState(cbState, cbSuccessCount)
    /\ cbPc' = [cbPc EXCEPT ![c] = "idle"]
    /\ cbEvent' = [kind |-> "success", caller |-> c, from |-> cbState]
    /\ cbConsec' = IF cbState' = "CLOSED" THEN 0 ELSE NoRun
    /\ cbHalfOpenOks' = IF cbState = "HALF_OPEN" THEN cbHalfOpenOks + 1
                        ELSE cbHalfOpenOks
    /\ UNCHANGED <<cbCfg, cbLastFailureTime, cbNow>>
    /\ UNCHANGED <<retryVars, cacheVars, memVars, delayVars,
                   gateVars, healVars>>

\* Mutant: the breaker opens only when the threshold is exceeded.
onFailureStateLate(state, failureCount) ==
    IF failureCount > FailureThreshold THEN "OPEN" ELSE state

\* onFailure(): the state it leaves, failureCount being the incremented count.
onFailureState(state, failureCount) ==
    IF failureCount >= FailureThreshold THEN "OPEN" ELSE state

\* The wrapped operation rejects: onFailure(), then `throw error`.
CbOpFailure(c) ==
    /\ cbPc[c] = "awaitOp"
    /\ cbFailureCount < MaxFailures
    /\ cbFailureCount' = cbFailureCount + 1
    /\ cbLastFailureTime' = cbNow
    /\ cbState' = onFailureState(cbState, cbFailureCount + 1)
    /\ cbPc' = [cbPc EXCEPT ![c] = "idle"]
    /\ cbEvent' = [kind |-> "failure", caller |-> c, from |-> cbState]
    /\ cbConsec' = IF cbConsec = NoRun THEN NoRun ELSE cbConsec + 1
    /\ UNCHANGED <<cbCfg, cbSuccessCount, cbNow, cbHalfOpenOks>>
    /\ UNCHANGED <<retryVars, cacheVars, memVars, delayVars,
                   gateVars, healVars>>

\* Time passes.
CbTick ==
    /\ cbNow < MaxNow
    /\ cbNow' = cbNow + 1
    /\ cbEvent' = [kind |-> "tick", caller |-> 0, from |-> cbState]
    /\ UNCHANGED <<cbCfg, cbState, cbFailureCount, cbLastFailureTime,
                   cbSuccessCount, cbPc, cbConsec, cbHalfOpenOks>>
    /\ UNCHANGED <<retryVars, cacheVars, memVars, delayVars,
                   gateVars, healVars>>

NextBreaker ==
    \/ \E c \in CbCallers : CbExecute(c)
    \/ \E c \in CbCallers : CbOpSuccess(c)
    \/ \E c \in CbCallers : CbOpFailure(c)
    \/ CbTick

\* ---- a breaker whose operations stop failing ----------------------------

\* The service behind the wrapped operations recovers: every operation that
\* settles from now on resolves.
CbHeal ==
    /\ ~cbHealed
    /\ cbHealed' = TRUE
    /\ UNCHANGED <<breakerVars, retryVars, cacheVars, memVars, delayVars,
                   gateVars>>

\* The wrapped operation rejects, which it does only before the recovery.
CbOpFailureBeforeHeal(c) ==
    /\ ~cbHealed
    /\ CbOpFailure(c)

\* After the recovery time keeps passing beyond MaxNow for as long as it
\* matters: while the breaker is OPEN and no more than resetTimeout has
\* passed since the latest failure.
CbCooldownTick ==
    /\ cbHealed
    /\ cbNow >= MaxNow
    /\ cbState = "OPEN"
    /\ cbNow - cbLastFailureTime <= ResetTimeout
    /\ cbNow' = cbNow + 1
    /\ cbEvent' = [kind |-> "tick", caller |-> 0, from |-> cbState]
    /\ UNCHANGED <<cbCfg, cbState, cbFailureCount, cbLastFailureTime,
                   cbSuccessCount, cbPc, cbConsec, cbHalfOpenOks>>
    /\ UNCHANGED <<retryVars, cacheVars, memVars, delayVars,
                   gateVars, healVars>>

NextRecover ==
    \/ \E c \in CbCallers : CbExecute(c)
    \/ \E c \in CbCallers : CbOpSuccess(c)
    \/ \E c \in CbCallers : CbOpFailureBeforeHeal(c)
    \/ CbTick
    \/ CbCooldownTick
    \/ CbHeal

\* Callers keep calling execute, every operation settles, and time passes.
FairRecover ==
    /\ WF_vars(\E c \in CbCallers : CbExecute(c))
    /\ WF_vars(\E c \in CbCallers : CbOpSuccess(c))
    /\ WF_vars(CbTick)
    /\ WF_vars(CbCooldownTick)


\* ---- retryWithBackoff(() => breaker.execute(op), policy) -----------------
\* One retry sequence whose operation runs op through a breaker of its own.
\* The clock of the breaker is the time the sequence has slept (in the
\* retry's unit of 10 ms): op settles in no time.

\* The caller of execute that is the retry sequence.
GatedCaller == CHOOSE c \in CbCallers : \A d \in CbCallers : c <= d

\* new Error('Circuit breaker is OPEN - operation not allowed'): an error
\* without a response.
BreakerOpenError == [response |-> FALSE, status |-> 0, breakerOpen |-> TRUE]

\* The head of the for loop: operation() is called, which calls
\* breaker.execute(op); execute throws at its gate, or calls op.
GatedAttempt ==
    /\ rPc = "loop"
    /\ IF rAttempt < rPolicy.maxAttempts
       THEN /\ rPc' = "awaitOp"
            /\ rCalls' = rCalls + 1
            /\ rInFlight' = rInFlight + 1
            /\ gWithin' = (gWithin /\ (gOpenedAt = 0 \/
                              cbNow - cbLastFailureTime <= ResetTimeout))
            /\ IF cbState = "OPEN" /\ ~CbResetElapsed
               THEN /\ cbEvent' = [kind |-> "rejected", caller |-> GatedCaller,
                                   from |-> cbState]
                    /\ UNCHANGED <<cbState, cbSuccessCount, cbHalfOpenOks,
                                   cbPc, gOpCalls>>
               ELSE /\ cbState' = IF cbState = "OPEN" THEN "HALF_OPEN"
                                  ELSE cbState
                    /\ cbSuccessCount' = IF cbState = "OPEN" THEN 0
                                         ELSE cbSuccessCount
                    /\ cbHalfOpenOks' = IF cbState = "OPEN" THEN 0
                                        ELSE cbHalfOpenOks
                    /\ cbPc' = [cbPc EXCEPT ![GatedCaller] = "awaitOp"]
                    /\ cbEvent' = [kind |-> "execute", caller |-> GatedCaller,
                                   from |-> cbState]
                    /\ gOpCalls' = gOpCalls + 1
            /\ UNCHANGED rOutcome
       ELSE /\ rPc' = "rejected"
            /\ rOutcome' = [kind |-> "error", error |-> rLastError]
            /\ UNCHANGED <<rCalls, rInFlight, cbState, cbSuccessCount,
                           cbHalfOpenOks, cbPc, cbEvent, gOpCalls, gWithin>>
    /\ UNCHANGED <<rPolicy, rAttempt, rLastError, rSleeps, rElapsed, rThrown,
                   rFirstError, rAllRetryable>>
    /\ UNCHANGED <<cbCfg, cbFailureCount, cbLastFailureTime, cbNow, cbConsec,
                   gOpenedAt>>
    /\ UNCHANGED <<cacheVars, memVars, delayVars, healVars>>

\* The catch block of retryWithBackoff, operation() having rejected with
\* error; after a `break`, `throw lastError`.
GatedCatch(error) ==
    /\ rInFlight' = rInFlight - 1
    /\ rLastError' = CaughtError(rLastError, error)
    /\ rThrown' = error
    /\ rFirstError' = IF rCalls = 1 THEN error ELSE rFirstError
    /\ rAllRetryable' = (rAllRetryable /\ RetryCondition(rPolicy, error))
    /\ IF RetryBreaks(rPolicy, rAttempt, error)
       THEN /\ rPc' = "rejected"
            /\ rOutcome' = [kind |-> "error", error |-> rLastError']
            /\ UNCHANGED <<rSleeps, rElapsed>>
       ELSE /\ rPc' = "sleeping"
            /\ rSleeps' = rSleeps + 1
            /\ \E d \in addJitter(calculateDelay(rAttempt, rPolicy.baseDelay,
                                   rPolicy.backoffFactor, rPolicy.maxDelay)) :
                   rElapsed' = rElapsed + d
            /\ UNCHANGED rOutcome
    /\ UNCHANGED <<rPolicy, rAttempt, rCalls>>

\* execute threw at its gate: the catch block of retryWithBackoff gets the
\* breaker's error.
GatedGateRejects ==
    /\ rPc = "awaitOp"
    /\ cbPc[GatedCaller] = "idle"
    /\ GatedCatch(BreakerOpenError)
    /\ UNCHANGED <<breakerVars, gateVars>>
    /\ UNCHANGED <<cacheVars, memVars, delayVars, healVars>>

\* op rejects: onFailure() and `throw error` in execute, then the catch
\* block of retryWithBackoff.
GatedOpFailure(error) ==
    /\ rPc = "awaitOp"
    /\ cbPc[GatedCaller] = "awaitOp"
    /\ cbFailureCount' = cbFailureCount + 1
    /\ cbLastFailureTime' = cbNow
    /\ cbState' = onFailureState(cbState, cbFailureCount + 1)
    /\ cbPc' = [cbPc EXCEPT ![GatedCaller] = "idle"]
    /\ cbEvent' = [kind |-> "failure", caller |-> GatedCaller, from |-> cbState]
    /\ cbConsec' = IF cbConsec = NoRun THEN NoRun ELSE cbConsec + 1
    /\ gOpenedAt' = IF gOpenedAt = 0 /\ cbState # "OPEN" /\ cbState' = "OPEN"
                    THEN gOpCalls ELSE gOpenedAt
    /\ GatedCatch(error)
    /\ UNCHANGED <<cbCfg, cbSuccessCount, cbNow, cbHalfOpenOks, gOpCalls,
                   gWithin>>
    /\ UNCHANGED <<cacheVars, memVars, delayVars, healVars>>

\* op resolves: onSuccess() and `return result` in execute, then `return
\* result` in retryWithBackoff.
GatedOpSuccess(v) ==
    /\ rPc = "awaitOp"
    /\ cbPc[GatedCaller] = "awaitOp"
    /\ cbFailureCount' = 0
    /\ cbSuccessCount' = onSuccessCount(cbState, cbSuccessCount)
    /\ cbState' = onSuccessState(cbState, cbSuccessCount)
    /\ cbPc' = [cbPc EXCEPT ![GatedCaller] = "idle"]
    /\ cbEvent' = [kind |-> "success", caller |-> GatedCaller, from |-> cbState]
    /\ cbConsec' = IF cbState' = "CLOSED" THEN 0 ELSE NoRun
    /\ cbHalfOpenOks' = IF cbState = "HALF_OPEN" THEN cbHalfOpenOks + 1
                        ELSE cbHalfOpenOks
    /\ rPc' = "resolved"
    /\ rOutcome' = [kind |-> "value", value |-> v]
    /\ rInFlight' = rInFlight - 1
    /\ UNCHANGED <<rPolicy, rAttempt, rLastError, rCalls, rSleeps, rElapsed,
                   rThrown, rFirstError, rAllRetryable>>
    /\ UNCHANGED <<cbCfg, cbLastFailureTime, cbNow, gateVars>>
    /\ UNCHANGED <<cacheVars, memVars, delayVars, healVars>>

\* The sleep timer fires: `attempt++` and back to the loop head; the clock
\* shows the time slept so far.
GatedSleepDone ==
    /\ rPc = "sleeping"
    /\ rPc' = "loop"
    /\ rAttempt' = rAttempt + 1
    /\ cbNow' = rElapsed
    /\ UNCHANGED <<rPolicy, rLastError, rOutcome, rCalls, rInFlight, rSleeps,
                   rElapsed, rThrown, rFirstError, rAllRetryable>>
    /\ UNCHANGED <<cbCfg, cbState, cbFailureCount, cbLastFailureTime,
                   cbSuccessCount, cbPc, cbEvent, cbConsec, cbHalfOpenOks,
                   gateVars>>
    /\ UNCHANGED <<cacheVars, memVars, delayVars, healVars>>

NextGated ==
    \/ \E policy \in Policies : RetryCall(policy)
    \/ GatedAttempt
    \/ \E v \in Values : GatedOpSuccess(v)
    \/ \E error \in Errors : GatedOpFailure(error)
    \/ GatedGateRejects
    \/ GatedSleepDone


(***************************************************************************)
(* cacheUtils.js : MemoryCache, PersistentCache, HybridCache, withCache    *)
(***************************************************************************)

\* Cache operations (everything but the passing of time) in one run: when the
\* cache is used directly, and when it is used through wrapped functions.
MaxOps == 3
MaxCallOps == 5
MaxFaultOps == 4
\* The cache's clock stops here.
MaxTime == 3

\* CACHE_CONFIG.MAX_ENTRIES (100 in the source, scaled to the model's key set)
MAX_ENTRIES == 1
\* 5 * 60 * 1000 ms, in ticks of the model's clock
FiveMinutes == 1

Keys == {"a", "b"}
\* The callers of wrapped functions that interleave.
WcCallers == {"p", "q"}
NoData == "null"
\* The ttl arguments explored: five minutes, and more than five minutes.
Ttls == {1, 2}
\* The ttl a wrapped function was created with; its keyGenerator gives each
\* wrapped function its own keys.
WrapTtl(k) == IF k = "a" THEN 1 ELSE 2

NoItem == [data |-> NoData, expiresAt |-> NoTime]
\* A stored string that JSON.parse rejects.
Unparsable == [data |-> "unparsable", expiresAt |-> NoTime]
\* lastSet[k]: who made the latest set of k ("set": cacheManager.set, "call":
\* a wrapped function), the data and the expiry now + ttl it asked for,
\* whether its first setItem of the value succeeded, and whether no delete or
\* clear has removed k since.
NoSet == [by |-> "none", data |-> NoData, until |-> NoTime, durable |-> FALSE,
          live |-> FALSE]

\* What the setItem calls of one PersistentCache.set can do. w1: the first
\* setItem of the value succeeds, throws QuotaExceededError or throws another
\* error; mOk: _setMetadata's setItem succeeds; w2: the setItem retried after
\* a QuotaExceededError succeeds.
WriteCases ==
    {[w1 |-> "ok", mOk |-> TRUE, w2 |-> TRUE],
     [w1 |-> "ok", mOk |-> FALSE, w2 |-> TRUE],
     [w1 |-> "quota", mOk |-> TRUE, w2 |-> TRUE],
     [w1 |-> "quota", mOk |-> TRUE, w2 |-> FALSE],
     [w1 |-> "error", mOk |-> TRUE, w2 |-> TRUE]}
\* What a wrapped function can throw.
FnErrors == {NetworkError, [response |-> TRUE, status |-> 404]}

\* ---- MemoryCache -------------------------------------------------------

MemHas(mem, key) == \E i \in 1..Len(mem) : mem[i].key = key

MemItem(mem, key) == mem[CHOOSE i \in 1..Len(mem) : mem[i].key = key]

\* Map.prototype.delete
MemoryDelete(mem, key) == SelectSeq(mem, LAMBDA e : e.key # key)

\* Map.prototype.set: a present key keeps its place, a new key goes last.
MapSet(mem, item) ==
    IF MemHas(mem, item.key)
    THEN [i \in 1..Len(mem) |-> IF mem[i].key = item.key THEN item ELSE mem[i]]
    ELSE Append(mem, item)

\* Mutant: an entry counts as expired from the moment expiresAt is reached.
MemoryGetExpiresEarly(mem, key, now) ==
    IF ~MemHas(mem, key) THEN [mem |-> mem, data |-> NoData]
    ELSE LET item == MemItem(mem, key) IN
         IF now >= item.expiresAt
         THEN [mem |-> MemoryDelete(mem, key), data |-> NoData]
         ELSE [mem |-> Append(MemoryDelete(mem, key), item), data |-> item.data]

\* MemoryCache.get: [mem |-> the map afterwards, data |-> what it returns]
MemoryGet(mem, key, now) ==
    IF ~MemHas(mem, key) THEN [mem |-> mem, data |-> NoData]
    ELSE LET item == MemItem(mem, key) IN
         IF now > item.expiresAt
         THEN [mem |-> MemoryDelete(mem, key), data |-> NoData]
         ELSE [mem |-> Append(MemoryDelete(mem, key), item), data |-> item.data]

\* Mutant: the map evicts only once it holds more than maxSize entries.
MemorySetEvictsLate(mem, maxSize, key, data, ttl, now) ==
    LET kept == IF Len(mem) > maxSize THEN Tail(mem) ELSE mem IN
    MapSet(kept, [key |-> key, data |-> data, expiresAt |-> now + ttl])

\* Mutant: a full map refuses the entry instead of evicting for it.
MemorySetRefusesWhenFull(mem, maxSize, key, data, ttl, now) ==
    IF Len(mem) >= maxSize /\ ~MemHas(mem, key) THEN mem
    ELSE MapSet(mem, [key |-> key, data |-> data, expiresAt |-> now + ttl])

\* MemoryCache.set
MemorySet(mem, maxSize, key, data, ttl, now) ==
    LET kept == IF Len(mem) >= maxSize /\ Len(mem) > 0 THEN Tail(mem) ELSE mem IN
    MapSet(kept, [key |-> key, data |-> data, expiresAt |-> now + ttl])

\* MemoryCache.cleanup
MemoryCleanup(mem, now) == SelectSeq(mem, LAMBDA e : ~(now > e.expiresAt))

\* ---- PersistentCache ---------------------------------------------------
\* A persistent state ps is [store |-> the items, meta |-> the metadata].

MetaHas(meta, key) == \E i \in 1..Len(meta) : meta[i].key = key

\* metadata[key] = {...}: a present key keeps its place, a new key goes last.
MetaPut(meta, key, expiresAt) ==
    LET rec == [key |-> key, expiresAt |-> expiresAt] IN
    IF MetaHas(meta, key)
    THEN [i \in 1..Len(meta) |-> IF meta[i].key = key THEN rec ELSE meta[i]]
    ELSE Append(meta, rec)

\* delete metadata[key]
MetaDelete(meta, key) == SelectSeq(meta, LAMBDA e : e.key # key)

\* PersistentCache.delete
PersistentDelete(ps, key) ==
    [store |-> [ps.store EXCEPT ![key] = NoItem],
     meta |-> MetaDelete(ps.meta, key)]

\* Mutant: the SyntaxError of JSON.parse is not caught.
PersistentGetThrowsOnParse(ps, key, now) ==
    LET item == ps.store[key] IN
    IF item = NoItem THEN [ps |-> ps, data |-> NoData, threw |-> FALSE]
    ELSE IF item = Unparsable THEN [ps |-> ps, data |-> NoData, threw |-> TRUE]
    ELSE IF now > item.expiresAt
         THEN [ps |-> PersistentDelete(ps, key), data |-> NoData, threw |-> FALSE]
         ELSE [ps |-> ps, data |-> item.data, threw |-> FALSE]

\* PersistentCache.get: [ps |-> the state afterwards, data |-> what it
\* returns, threw |-> whether an exception leaves it]. JSON.parse throws on
\* an unparsable item, inside the try block: the catch returns null.
PersistentGet(ps, key, now) ==
    LET item == ps.store[key] IN
    IF item = NoItem THEN [ps |-> ps, data |-> NoData, threw |-> FALSE]
    ELSE IF item = Unparsable THEN [ps |-> ps, data |-> NoData, threw |-> FALSE]
    ELSE IF now > item.expiresAt
         THEN [ps |-> PersistentDelete(ps, key), data |-> NoData, threw |-> FALSE]
         ELSE [ps |-> ps, data |-> item.data, threw |-> FALSE]

\* PersistentCache.cleanup: only the keys the metadata names are looked at.
PersistentCleanup(ps, now) ==
    LET expired == {ps.meta[i].key : i \in {j \in 1..Len(ps.meta) :
                                              now > ps.meta[j].expiresAt}} IN
    [store |-> [k \in DOMAIN ps.store |->
                   IF k \in expired THEN NoItem ELSE ps.store[k]],
     meta |-> SelectSeq(ps.meta, LAMBDA e : ~(now > e.expiresAt))]

\* Array.prototype.sort by expiresAt (stable: ties keep the metadata's order)
RECURSIVE SortByExpiry(_)
SortByExpiry(s) ==
    IF s = <<>> THEN <<>>
    ELSE LET e == s[Len(s)]
             rest == SortByExpiry(SubSeq(s, 1, Len(s) - 1))
             n == Cardinality({i \in 1..Len(rest) : rest[i].expiresAt <= e.expiresAt})
         IN SubSeq(rest, 1, n) \o <<e>> \o SubSeq(rest, n + 1, Len(rest))

RECURSIVE DeleteAll(_, _)
DeleteAll(ps, victims) ==
    IF victims = <<>> THEN ps
    ELSE DeleteAll(PersistentDelete(ps, Head(victims).key), Tail(victims))

\* Mutant: the cleanup starts one entry later.
CleanupIfNeededLate(maxEntries, ps) ==
    IF Len(ps.meta) > maxEntries + 1
    THEN DeleteAll(ps, SubSeq(SortByExpiry(ps.meta), 1, (maxEntries * 2) \div 10))
    ELSE ps

\* PersistentCache._cleanupIfNeeded, maxEntries being CACHE_CONFIG.MAX_ENTRIES:
\* Math.floor(maxEntries * 0.2) entries go, those first in expiresAt order.
CleanupIfNeededOf(maxEntries, ps) ==
    IF Len(ps.meta) > maxEntries
    THEN DeleteAll(ps, SubSeq(SortByExpiry(ps.meta), 1, (maxEntries * 2) \div 10))
    ELSE ps

CleanupIfNeeded(ps) == CleanupIfNeededOf(MAX_ENTRIES, ps)

\* Mutant: after a quota error the write is retried without a cleanup.
PersistentWriteNoCleanup(ps, key, data, ttl, now, w) ==
    LET item == [data |-> data, expiresAt |-> now + ttl] IN
    IF w.w1 = "ok"
    THEN LET done == CleanupIfNeeded(
                 [store |-> [ps.store EXCEPT ![key] = item],
                  meta |-> IF w.mOk THEN MetaPut(ps.meta, key, item.expiresAt)
                           ELSE ps.meta])
         IN [store |-> done.store, meta |-> done.meta,
             setItems |-> 1, cleanups |-> 0]
    ELSE IF w.w1 = "quota"
         THEN [store |-> IF w.w2 THEN [ps.store EXCEPT ![key] = item]
                         ELSE ps.store,
               meta |-> ps.meta, setItems |-> 2, cleanups |-> 0]
         ELSE [store |-> ps.store, meta |-> ps.meta,
               setItems |-> 1, cleanups |-> 0]

\* What PersistentCache.set leaves of the store and the metadata, w saying
\* what its setItem calls do; setItems and cleanups count its calls of
\* localStorage.setItem for the item and of this.cleanup(). maxEntries is
\* CACHE_CONFIG.MAX_ENTRIES.
PersistentWriteOf(maxEntries, ps, key, data, ttl, now, w) ==
    LET item == [data |-> data, expiresAt |-> now + ttl] IN
    IF w.w1 = "ok"
    THEN LET done == CleanupIfNeededOf(maxEntries,
                 [store |-> [ps.store EXCEPT ![key] = item],
                  meta |-> IF w.mOk THEN MetaPut(ps.meta, key, item.expiresAt)
                           ELSE ps.meta])
         IN [store |-> done.store, meta |-> done.meta,
             setItems |-> 1, cleanups |-> 0]
    ELSE IF w.w1 = "quota"
         THEN LET cleaned == PersistentCleanup(ps, now) IN
              [store |-> IF w.w2 THEN [cleaned.store EXCEPT ![key] = item]
                         ELSE cleaned.store,
               meta |-> cleaned.meta, setItems |-> 2, cleanups |-> 1]
         ELSE [store |-> ps.store, meta |-> ps.meta,
               setItems |-> 1, cleanups |-> 0]

PersistentWrite(ps, key, data, ttl, now, w) ==
    PersistentWriteOf(MAX_ENTRIES, ps, key, data, ttl, now, w)

\* PersistentCache.set: the state it leaves, and whether an exception leaves
\* it. JSON.stringify and setItem throw inside the try block; the catch block
\* logs, and retries inside a try block of its own.
PersistentSet(ps, key, data, ttl, now, w) ==
    LET after == PersistentWrite(ps, key, data, ttl, now, w) IN
    [store |-> after.store, meta |-> after.meta, threw |-> FALSE,
     setItems |-> after.setItems, cleanups |-> after.cleanups]

\* PersistentCache.clear: removes the items the metadata names, then the
\* metadata.
PersistentClear(ps) ==
    [store |-> [k \in DOMAIN ps.store |->
                   IF MetaHas(ps.meta, k) THEN NoItem ELSE ps.store[k]],
     meta |-> <<>>]

\* PersistentCache.getStats: the entries the metadata names and how many of
\* them are expired (totalSize, the sum of the recorded string lengths, is
\* left out: the model keeps no lengths). No method assigns this.hitRate, so
\* `this.hitRate || 0` is 0.
PersistentGetStats(ps, now) ==
    [totalEntries |-> Len(ps.meta),
     expiredCount |-> Cardinality({i \in 1..Len(ps.meta) :
                                      now > ps.meta[i].expiresAt}),
     hitRate |-> 0]

\* ---- HybridCache -------------------------------------------------------
\* A cache state c is [mem, store, meta, stats].

Persistent(c) == [store |-> c.store, meta |-> c.meta]

WithPersistent(c, ps) == [c EXCEPT !.store = ps.store, !.meta = ps.meta]

\* Mutant: a durable hit is returned without being promoted.
HybridGetNoPromotion(c, key, now) ==
    LET m == MemoryGet(c.mem, key, now) IN
    IF m.data # NoData
    THEN [c |-> [c EXCEPT !.mem = m.mem, !.stats.hits = @ + 1], data |-> m.data,
          threw |-> FALSE]
    ELSE LET p == PersistentGet(Persistent(c), key, now)
             c1 == WithPersistent([c EXCEPT !.mem = m.mem], p.ps)
         IN IF p.threw THEN [c |-> c1, data |-> NoData, threw |-> TRUE]
            ELSE IF p.data # NoData
            THEN [c |-> [c1 EXCEPT !.stats.hits = @ + 1], data |-> p.data,
                  threw |-> FALSE]
            ELSE [c |-> [c1 EXCEPT !.stats.misses = @ + 1], data |-> NoData,
                  threw |-> FALSE]

\* Mutant: a durable hit is promoted and returned, but not counted.
HybridGetPromotionUncounted(c, key, now) ==
    LET m == MemoryGet(c.mem, key, now) IN
    IF m.data # NoData
    THEN [c |-> [c EXCEPT !.mem = m.mem, !.stats.hits = @ + 1], data |-> m.data,
          threw |-> FALSE]
    ELSE LET p == PersistentGet(Persistent(c), key, now)
             c1 == WithPersistent([c EXCEPT !.mem = m.mem], p.ps)
         IN IF p.threw THEN [c |-> c1, data |-> NoData, threw |-> TRUE]
            ELSE IF p.data # NoData
            THEN [c |-> [c1 EXCEPT
                           !.mem = MemorySet(m.mem, MAX_ENTRIES, key, p.data,
                                             FiveMinutes, now)],
                  data |-> p.data, threw |-> FALSE]
            ELSE [c |-> [c1 EXCEPT !.stats.misses = @ + 1], data |-> NoData,
                  threw |-> FALSE]

\* HybridCache.get: [c |-> the cache afterwards, data |-> what it returns]
HybridGet(c, key, now) ==
    LET m == MemoryGet(c.mem, key, now) IN
    IF m.data # NoData
    THEN [c |-> [c EXCEPT !.mem = m.mem, !.stats.hits = @ + 1], data |-> m.data,
          threw |-> FALSE]
    ELSE LET p == PersistentGet(Persistent(c), key, now)
             c1 == WithPersistent([c EXCEPT !.mem = m.mem], p.ps)
         IN IF p.threw THEN [c |-> c1, data |-> NoData, threw |-> TRUE]
            ELSE IF p.data # NoData
            THEN [c |-> [c1 EXCEPT
                           !.mem = MemorySet(m.mem, MAX_ENTRIES, key, p.data,
                                             FiveMinutes, now),
                           !.stats.hits = @ + 1],
                  data |-> p.data, threw |-> FALSE]
            ELSE [c |-> [c1 EXCEPT !.stats.misses = @ + 1], data |-> NoData,
                  threw |-> FALSE]

\* HybridCache.set
HybridSet(c, key, data, ttl, now, w) ==
    LET mem == MemorySet(c.mem, MAX_ENTRIES, key, data, Min(ttl, FiveMinutes), now)
        ps == PersistentSet(Persistent(c), key, data, ttl, now, w)
    IN [mem |-> mem, store |-> ps.store, meta |-> ps.meta,
        stats |-> IF ps.threw THEN c.stats ELSE [c.stats EXCEPT !.sets = @ + 1],
        threw |-> ps.threw, setItems |-> ps.setItems, cleanups |-> ps.cleanups]

\* HybridCache.delete
HybridDelete(c, key) ==
    WithPersistent([c EXCEPT !.mem = MemoryDelete(c.mem, key)],
                   PersistentDelete(Persistent(c), key))

\* HybridCache.clear
HybridClear(c) ==
    LET ps == PersistentClear(Persistent(c)) IN
    [mem |-> <<>>, store |-> ps.store, meta |-> ps.meta,
     stats |-> [hits |-> 0, misses |-> 0, sets |-> 0]]

\* HybridCache.cleanup
HybridCleanup(c, now) ==
    WithPersistent([c EXCEPT !.mem = MemoryCleanup(c.mem, now)],
                   PersistentCleanup(Persistent(c), now))

\* { ...a, ...b }: the properties of a, then those of b over them.
Spread(a, b) ==
    [f \in (DOMAIN a) \cup (DOMAIN b) |-> IF f \in DOMAIN b THEN b[f] ELSE a[f]]

\* Math.round(hitRate * 100), hitRate being hits / (hits + misses) or 0: the
\* rate in hundredths, halves rounded up.
RoundedHitRate(hits, misses) ==
    IF hits + misses > 0
    THEN (200 * hits + (hits + misses)) \div (2 * (hits + misses))
    ELSE 0

\* HybridCache.getStats: { ...this.stats, hitRate, memorySize,
\* ...persistentStats }, rates in hundredths.
HybridGetStats(c, now) ==
    Spread(Spread(c.stats,
                  [hitRate |-> RoundedHitRate(c.stats.hits, c.stats.misses),
                   memorySize |-> Len(c.mem)]),
           PersistentGetStats(Persistent(c), now))

\* ---- globalCache, cacheManager, withCache ------------------------------

globalCache ==
    [mem |-> memoryCache, store |-> localStorage, meta |-> metadata, stats |-> stats]

Becomes(c) ==
    /\ memoryCache' = c.mem
    /\ localStorage' = c.store
    /\ metadata' = c.meta
    /\ stats' = c.stats

\* const globalCache = new HybridCache(), on an empty localStorage
CacheConstructed(budget) ==
    /\ memoryCache = <<>>
    /\ localStorage = [k \in Keys |-> NoItem]
    /\ metadata = <<>>
    /\ stats = [hits |-> 0, misses |-> 0, sets |-> 0]
    /\ cNow = 0
    /\ wcPc = [p \in WcCallers |-> "idle"]
    /\ wcKey = [p \in WcCallers |-> "a"]
    /\ cEvent = [op |-> "new", key |-> "a", data |-> NoData, invoked |-> FALSE]
    /\ lastSet = [k \in Keys |-> NoSet]
    /\ cOps = 0
    /\ cBudget = budget

InitCache == CacheConstructed(MaxOps)

InitWithCache == CacheConstructed(MaxCallOps)

InitFaulty == CacheConstructed(MaxFaultOps)

\* One more cache operation, within the run's budget.
Op ==
    /\ cOps < cBudget
    /\ cOps' = cOps + 1
    /\ UNCHANGED cBudget

Invalidated(ls, keys) ==
    [k \in Keys |-> IF k \in keys THEN [ls[k] EXCEPT !.live = FALSE] ELSE ls[k]]

\* cacheManager.get
CmGet(key) ==
    /\ Op
    /\ LET r == HybridGet(globalCache, key, cNow) IN
         /\ Becomes(r.c)
         /\ cEvent' = [op |-> "get", key |-> key, data |-> r.data,
                       invoked |-> FALSE, threw |-> r.threw]
    /\ UNCHANGED <<cNow, wcPc, wcKey, lastSet>>
    /\ UNCHANGED <<retryVars, breakerVars, memVars, delayVars,
                   gateVars, healVars>>

\* cacheManager.set
CmSet(key, data, ttl, w) ==
    /\ Op
    /\ LET r == HybridSet(globalCache, key, data, ttl, cNow, w) IN
         /\ Becomes(r)
         /\ cEvent' = [op |-> "set", key |-> key, data |-> data,
                       invoked |-> FALSE, w |-> w, threw |-> r.threw,
                       setItems |-> r.setItems, cleanups |-> r.cleanups]
    /\ lastSet' = [lastSet EXCEPT ![key] =
                      [by |-> "set", data |-> data, until |-> cNow + ttl,
                       durable |-> (w.w1 = "ok"), live |-> TRUE]]
    /\ UNCHANGED <<cNow, wcPc, wcKey>>
    /\ UNCHANGED <<retryVars, breakerVars, memVars, delayVars,
                   gateVars, healVars>>

\* cacheManager.delete
CmDelete(key) ==
    /\ Op
    /\ Becomes(HybridDelete(globalCache, key))
    /\ cEvent' = [op |-> "delete", key |-> key, data |-> NoData, invoked |-> FALSE]
    /\ lastSet' = Invalidated(lastSet, {key})
    /\ UNCHANGED <<cNow, wcPc, wcKey>>
    /\ UNCHANGED <<retryVars, breakerVars, memVars, delayVars,
                   gateVars, healVars>>

\* cacheManager.clear
CmClear ==
    /\ Op
    /\ Becomes(HybridClear(globalCache))
    /\ cEvent' = [op |-> "clear", key |-> "a", data |-> NoData, invoked |-> FALSE]
    /\ lastSet' = Invalidated(lastSet, Keys)
    /\ UNCHANGED <<cNow, wcPc, wcKey>>
    /\ UNCHANGED <<retryVars, breakerVars, memVars, delayVars,
                   gateVars, healVars>>

\* cacheManager.cleanup, and the setInterval callback
CmCleanup ==
    /\ Op
    /\ Becomes(HybridCleanup(globalCache, cNow))
    /\ cEvent' = [op |-> "cleanup", key |-> "a", data |-> NoData, invoked |-> FALSE]
    /\ UNCHANGED <<cNow, wcPc, wcKey, lastSet>>
    /\ UNCHANGED <<retryVars, breakerVars, memVars, delayVars,
                   gateVars, healVars>>

\* cacheManager.getStats
CmGetStats ==
    /\ Op
    /\ cEvent' = [op |-> "getStats", key |-> "a", data |-> NoData,
                  invoked |-> FALSE,
                  result |-> HybridGetStats(globalCache, cNow)]
    /\ UNCHANGED <<memoryCache, localStorage, metadata, stats, cNow, wcPc, wcKey,
                   lastSet>>
    /\ UNCHANGED <<retryVars, breakerVars, memVars, delayVars,
                   gateVars, healVars>>

\* Mutant: a miss on a key another call is computing does not invoke fn.
WcCallCoalesces(p, key) ==
    /\ wcPc[p] = "idle"
    /\ Op
    /\ LET r == HybridGet(globalCache, key, cNow) IN
         /\ Becomes(r.c)
         /\ IF \/ r.threw
               \/ r.data # NoData
               \/ \E q \in WcCallers : wcPc[q] = "awaitFn" /\ wcKey[q] = key
            THEN /\ cEvent' = [op |-> "call", key |-> key, data |-> r.data,
                               invoked |-> FALSE, threw |-> r.threw]
                 /\ UNCHANGED <<wcPc, wcKey>>
            ELSE /\ cEvent' = [op |-> "call", key |-> key, data |-> NoData,
                               invoked |-> TRUE, threw |-> FALSE]
                 /\ wcPc' = [wcPc EXCEPT ![p] = "awaitFn"]
                 /\ wcKey' = [wcKey EXCEPT ![p] = key]
    /\ UNCHANGED <<cNow, lastSet>>
    /\ UNCHANGED <<retryVars, breakerVars, memVars, delayVars,
                   gateVars, healVars>>

\* The function withCache returns, up to `await fn(...args)`. globalCache.get
\* is called outside the try block: what it throws reaches the caller.
WcCall(p, key) ==
    /\ wcPc[p] = "idle"
    /\ Op
    /\ LET r == HybridGet(globalCache, key, cNow) IN
         /\ Becomes(r.c)
         /\ IF r.threw \/ r.data # NoData
            THEN /\ cEvent' = [op |-> "call", key |-> key, data |-> r.data,
                               invoked |-> FALSE, threw |-> r.threw]
                 /\ UNCHANGED <<wcPc, wcKey>>
            ELSE /\ cEvent' = [op |-> "call", key |-> key, data |-> NoData,
                               invoked |-> TRUE, threw |-> FALSE]
                 /\ wcPc' = [wcPc EXCEPT ![p] = "awaitFn"]
                 /\ wcKey' = [wcKey EXCEPT ![p] = key]
    /\ UNCHANGED <<cNow, lastSet>>
    /\ UNCHANGED <<retryVars, breakerVars, memVars, delayVars,
                   gateVars, healVars>>

\* fn resolves: globalCache.set(cacheKey, result, ttl); return result. The
\* set is inside the try block: what it throws is re-thrown to the caller.
WcFnResolve(p, result, w) ==
    /\ wcPc[p] = "awaitFn"
    /\ Op
    /\ LET r == HybridSet(globalCache, wcKey[p], result, WrapTtl(wcKey[p]),
                          cNow, w) IN
         /\ Becomes(r)
         /\ cEvent' = [op |-> "resolve", key |-> wcKey[p], data |-> result,
                       invoked |-> FALSE, w |-> w, threw |-> r.threw,
                       returned |-> IF r.threw THEN NoData ELSE result]
    /\ wcPc' = [wcPc EXCEPT ![p] = "idle"]
    /\ lastSet' = [lastSet EXCEPT ![wcKey[p]] =
                      [by |-> "call", data |-> result,
                       until |-> cNow + WrapTtl(wcKey[p]),
                       durable |-> (w.w1 = "ok"), live |-> TRUE]]
    /\ UNCHANGED <<cNow, wcKey>>
    /\ UNCHANGED <<retryVars, breakerVars, memVars, delayVars,
                   gateVars, healVars>>

\* Mutant: the failure is counted as a set.
WcCatchCountsSet(c, error) ==
    [c |-> [c EXCEPT !.stats.sets = @ + 1], thrown |-> error]

\* What the catch block of the wrapper leaves of the cache, and what it throws.
WcCatch(c, error) == [c |-> c, thrown |-> error]

\* fn rejects: the catch block re-throws.
WcFnReject(p, error) ==
    /\ Op
    /\ wcPc[p] = "awaitFn"
    /\ LET r == WcCatch(globalCache, error) IN
         /\ Becomes(r.c)
         /\ cEvent' = [op |-> "reject", key |-> wcKey[p], data |-> NoData,
                       invoked |-> FALSE, error |-> error, thrown |-> r.thrown]
    /\ wcPc' = [wcPc EXCEPT ![p] = "idle"]
    /\ UNCHANGED <<cNow, wcKey, lastSet>>
    /\ UNCHANGED <<retryVars, breakerVars, memVars, delayVars,
                   gateVars, healVars>>

\* What the catch blocks of getFeaturedPlaylists, getNewReleases and
\* getPopularTracks return when the retries have failed: an empty array.
EmptyList == "[]"

\* The functions getFeaturedPlaylists, getNewReleases and getPopularTracks
\* pass to withCache: try { return await <remote operation with retries> }
\* catch (error) { return [] }. What such a function settles with, outcome
\* being what the remote operation settled with.
CallSiteFallback(outcome) ==
    IF outcome.kind = "error" THEN [kind |-> "value", value |-> EmptyList]
    ELSE outcome

\* The remote operation of such a function fails (all its retries did): fn
\* resolves with the substitute, and the wrapper stores it as any result.
WcFnFallback(p, error, w) ==
    /\ wcPc[p] = "awaitFn"
    /\ Op
    /\ LET result == CallSiteFallback([kind |-> "error", error |-> error]).value
           r == HybridSet(globalCache, wcKey[p], result, WrapTtl(wcKey[p]),
                          cNow, w) IN
         /\ Becomes(r)
         /\ cEvent' = [op |-> "failed", key |-> wcKey[p], data |-> result,
                       invoked |-> FALSE, w |-> w, threw |-> r.threw,
                       returned |-> IF r.threw THEN NoData ELSE result]
         /\ lastSet' = [lastSet EXCEPT ![wcKey[p]] =
                           [by |-> "call", data |-> result,
                            until |-> cNow + WrapTtl(wcKey[p]),
                            durable |-> (w.w1 = "ok"), live |-> TRUE]]
    /\ wcPc' = [wcPc EXCEPT ![p] = "idle"]
    /\ UNCHANGED <<cNow, wcKey>>
    /\ UNCHANGED <<retryVars, breakerVars, memVars, delayVars,
                   gateVars, healVars>>

\* Time passes (followed only while the run has operations left).
CacheTick ==
    /\ cNow < MaxTime
    /\ cOps < cBudget
    /\ cNow' = cNow + 1
    /\ cEvent' = [op |-> "tick", key |-> "a", data |-> NoData, invoked |-> FALSE]
    /\ UNCHANGED <<memoryCache, localStorage, metadata, stats, wcPc, wcKey, lastSet,
                   cOps, cBudget>>
    /\ UNCHANGED <<retryVars, breakerVars, memVars, delayVars,
                   gateVars, healVars>>

\* Something else than this module writes the item of key: a string that
\* JSON.parse rejects.
StorageCorrupted(key) ==
    /\ Op
    /\ localStorage' = [localStorage EXCEPT ![key] = Unparsable]
    /\ cEvent' = [op |-> "corrupt", key |-> key, data |-> NoData, invoked |-> FALSE]
    /\ UNCHANGED <<memoryCache, metadata, stats, cNow, wcPc, wcKey, lastSet>>
    /\ UNCHANGED <<retryVars, breakerVars, memVars, delayVars,
                   gateVars, healVars>>

\* The value a caller of cacheManager.set passes for key: the cache never
\* looks into a value, so it is enough that successive sets of a key pass
\* different values.
NextValue(key) == IF lastSet[key].data = "v1" THEN "v2" ELSE "v1"

\* The cache used directly, through cacheManager.
NextCache ==
    \/ \E key \in Keys : CmGet(key)
    \/ \E key \in Keys, ttl \in Ttls, w \in WriteCases :
          CmSet(key, NextValue(key), ttl, w)
    \/ \E key \in Keys : CmDelete(key)
    \/ CmClear
    \/ CmCleanup
    \/ CmGetStats
    \/ CacheTick

\* The cache used through wrapped functions, with the invalidations and the
\* periodic cleanup the application runs beside them.
NextWithCache ==
    \/ \E p \in WcCallers, key \in Keys : WcCall(p, key)
    \/ \E p \in WcCallers, result \in Values, w \in WriteCases :
          WcFnResolve(p, result, w)
    \/ \E p \in WcCallers, error \in FnErrors : WcFnReject(p, error)
    \/ \E key \in Keys : CmDelete(key)
    \/ CmClear
    \/ CmCleanup
    \/ CacheTick

\* The wrapped functions on a storage whose items can be corrupted.
NextFaulty ==
    \/ \E p \in WcCallers, key \in Keys : WcCall(p, key)
    \/ \E p \in WcCallers, result \in Values, w \in WriteCases :
          WcFnResolve(p, result, w)
    \/ \E p \in WcCallers, error \in FnErrors : WcFnReject(p, error)
    \/ \E key \in Keys : StorageCorrupted(key)
    \/ \E key \in Keys : CmDelete(key)
    \/ CmClear
    \/ CmCleanup
    \/ CacheTick

\* The wrapped functions that substitute an empty array for a failure
\* (getPopularTracks with the ttl of key a, getFeaturedPlaylists and
\* getNewReleases with the ttl of key b).
NextFallback ==
    \/ \E p \in WcCallers, key \in Keys : WcCall(p, key)
    \/ \E p \in WcCallers, result \in Values, w \in WriteCases :
          WcFnResolve(p, result, w)
    \/ \E p \in WcCallers, error \in FnErrors, w \in WriteCases :
          WcFnFallback(p, error, w)
    \/ \E key \in Keys : CmDelete(key)
    \/ CmClear
    \/ CmCleanup
    \/ CacheTick

(***************************************************************************)
(* cacheUtils.js : a PersistentCache used on its own                       *)
(***************************************************************************)

\* Calls of the PersistentCache a run is followed for, once the tier is
\* filled.
MaxDurableOps == 2
\* CACHE_CONFIG.MAX_ENTRIES as the durable tier on its own is run with: 100 in
\* the source, scaled to the least value whose 20 % is a whole entry.
DurableMaxEntries == 5
\* One key more than the tier keeps.
DurableKeys == 1..(DurableMaxEntries + 1)

\* The value a caller passes with ttl: the cache never looks into a value,
\* and the callers of one ttl class store one kind of value.
DurableValue(ttl) == IF ttl = FiveMinutes THEN "v1" ELSE "v2"

\* The write in which every setItem succeeds.
WriteOk == [w1 |-> "ok", mOk |-> TRUE, w2 |-> TRUE]

\* new PersistentCache() on an empty localStorage, and then set(1, ...), ...,
\* set(n, ...) at time 0, each with ttl and each succeeding.
RECURSIVE DurableFilled(_, _)
DurableFilled(n, ttl) ==
    IF n = 0 THEN [store |-> [k \in DurableKeys |-> NoItem], meta |-> <<>>]
    ELSE LET r == PersistentWriteOf(DurableMaxEntries, DurableFilled(n - 1, ttl),
                                    n, DurableValue(ttl), ttl, 0, WriteOk)
         IN [store |-> r.store, meta |-> r.meta]

\* A PersistentCache that holds up to MAX_ENTRIES entries of one ttl class.
DurableConstructed ==
    /\ memoryCache = <<>>
    /\ \E n \in 0..DurableMaxEntries, ttl \in Ttls :
          /\ localStorage = DurableFilled(n, ttl).store
          /\ metadata = DurableFilled(n, ttl).meta
    /\ stats = [hits |-> 0, misses |-> 0, sets |-> 0]
    /\ cNow = 0
    /\ wcPc = [p \in WcCallers |-> "idle"]
    /\ wcKey = [p \in WcCallers |-> "a"]
    /\ cEvent = [op |-> "new", key |-> 1, data |-> NoData]
    /\ lastSet = [k \in Keys |-> NoSet]
    /\ cOps = 0
    /\ cBudget = MaxDurableOps

durableCache == [store |-> localStorage, meta |-> metadata]

\* The keys the tier holds an item or a metadata record of.
DurableKnown ==
    {k \in DurableKeys : localStorage[k] # NoItem \/ MetaHas(metadata, k)}

\* The keys a call is made with: the cache never looks into a key, so a key
\* it holds nothing of is the least such key.
DurableCallKeys ==
    DurableKnown \cup
        {k \in DurableKeys \ DurableKnown :
            \A j \in DurableKeys \ DurableKnown : k <= j}

\* PersistentCache.set
PcSet(key, data, ttl, w) ==
    /\ Op
    /\ LET r == PersistentWriteOf(DurableMaxEntries, durableCache, key, data,
                                  ttl, cNow, w) IN
         /\ localStorage' = r.store
         /\ metadata' = r.meta
         /\ cEvent' = [op |-> "set", key |-> key, data |-> data, ttl |-> ttl,
                       ok |-> (w = WriteOk)]
    /\ UNCHANGED <<memoryCache, stats, cNow, wcPc, wcKey, lastSet>>
    /\ UNCHANGED <<retryVars, breakerVars, memVars, delayVars,
                   gateVars, healVars>>

\* PersistentCache.get
PcGet(key) ==
    /\ Op
    /\ LET r == PersistentGet(durableCache, key, cNow) IN
         /\ localStorage' = r.ps.store
         /\ metadata' = r.ps.meta
         /\ cEvent' = [op |-> "get", key |-> key, data |-> r.data]
    /\ UNCHANGED <<memoryCache, stats, cNow, wcPc, wcKey, lastSet>>
    /\ UNCHANGED <<retryVars, breakerVars, memVars, delayVars,
                   gateVars, healVars>>

\* PersistentCache.delete
PcDelete(key) ==
    /\ Op
    /\ LET r == PersistentDelete(durableCache, key) IN
         /\ localStorage' = r.store
         /\ metadata' = r.meta
    /\ cEvent' = [op |-> "delete", key |-> key, data |-> NoData]
    /\ UNCHANGED <<memoryCache, stats, cNow, wcPc, wcKey, lastSet>>
    /\ UNCHANGED <<retryVars, breakerVars, memVars, delayVars,
                   gateVars, healVars>>

\* PersistentCache.cleanup
PcCleanup ==
    /\ Op
    /\ LET r == PersistentCleanup(durableCache, cNow) IN
         /\ localStorage' = r.store
         /\ metadata' = r.meta
    /\ cEvent' = [op |-> "cleanup", key |-> 1, data |-> NoData]
    /\ UNCHANGED <<memoryCache, stats, cNow, wcPc, wcKey, lastSet>>
    /\ UNCHANGED <<retryVars, breakerVars, memVars, delayVars,
                   gateVars, healVars>>

\* Time passes (followed only while the run has calls left).
DurableTick ==
    /\ cNow < MaxTime
    /\ cOps < cBudget
    /\ cNow' = cNow + 1
    /\ cEvent' = [op |-> "tick", key |-> 1, data |-> NoData]
    /\ UNCHANGED <<memoryCache, localStorage, metadata, stats, wcPc, wcKey,
                   lastSet, cOps, cBudget>>
    /\ UNCHANGED <<retryVars, breakerVars, memVars, delayVars,
                   gateVars, healVars>>

NextDurable ==
    \/ \E key \in DurableCallKeys, ttl \in Ttls, w \in WriteCases :
          PcSet(key, DurableValue(ttl), ttl, w)
    \/ \E key \in DurableCallKeys : PcGet(key)
    \/ \E key \in DurableKnown : PcDelete(key)
    \/ PcCleanup
    \/ DurableTick

(***************************************************************************)
(* cacheUtils.js : a MemoryCache used on its own                           *)
(***************************************************************************)

\* Largest maxSize of the maps explored, and the calls one run is followed for.
MaxMapSize == 2
MaxMemOps == 4

MemKeys == {"a", "b", "c"}

KeysOf(mem) == {mem[i].key : i \in 1..Len(mem)}

\* The place of key in the Map's iteration order (1: the first key, the one
\* set evicts).
Pos(mem, key) == CHOOSE i \in 1..Len(mem) : mem[i].key = key

\* The order of accesses after key was accessed: key is the most recent.
Touched(order, key) == Append(SelectSeq(order, LAMBDA k : k # key), key)

\* The order of accesses of the keys mem still holds.
Present(order, mem) == SelectSeq(order, LAMBDA k : MemHas(mem, k))

\* new MemoryCache(maxSize)
MemoryConstructed(maxSize) ==
    /\ mcMaxSize = maxSize
    /\ mcCache = <<>>
    /\ mcNow = 0
    /\ mcEvent = [op |-> "new", key |-> "a", data |-> NoData, evicted |-> {}]
    /\ mcOrder = <<>>
    /\ mcOps = 0

InitMemory == \E maxSize \in 1..MaxMapSize : MemoryConstructed(maxSize)

\* One more call on the map, within the run's budget.
McOp ==
    /\ mcOps < MaxMemOps
    /\ mcOps' = mcOps + 1
    /\ UNCHANGED <<mcMaxSize, mcNow>>

\* MemoryCache.set(key, data, ttl)
McSet(key, data, ttl) ==
    /\ McOp
    /\ mcCache' = MemorySet(mcCache, mcMaxSize, key, data, ttl, mcNow)
    /\ mcEvent' = [op |-> "set", key |-> key, data |-> data,
                   evicted |-> KeysOf(mcCache) \ KeysOf(mcCache')]
    /\ mcOrder' = Present(IF MemHas(mcCache, key) THEN mcOrder
                          ELSE Append(mcOrder, key), mcCache')
    /\ UNCHANGED <<retryVars, breakerVars, cacheVars, delayVars,
                   gateVars, healVars>>

\* MemoryCache.get(key)
McGet(key) ==
    /\ McOp
    /\ LET r == MemoryGet(mcCache, key, mcNow) IN
         /\ mcCache' = r.mem
         /\ mcEvent' = [op |-> "get", key |-> key, data |-> r.data,
                        evicted |-> KeysOf(mcCache) \ KeysOf(r.mem)]
         /\ mcOrder' = Present(IF r.data # NoData THEN Touched(mcOrder, key)
                               ELSE mcOrder, r.mem)
    /\ UNCHANGED <<retryVars, breakerVars, cacheVars, delayVars,
                   gateVars, healVars>>

\* MemoryCache.delete(key)
McDelete(key) ==
    /\ McOp
    /\ mcCache' = MemoryDelete(mcCache, key)
    /\ mcEvent' = [op |-> "delete", key |-> key, data |-> NoData,
                   evicted |-> KeysOf(mcCache) \ KeysOf(mcCache')]
    /\ mcOrder' = Present(mcOrder, mcCache')
    /\ UNCHANGED <<retryVars, breakerVars, cacheVars, delayVars,
                   gateVars, healVars>>

\* MemoryCache.clear()
McClear ==
    /\ McOp
    /\ mcCache' = <<>>
    /\ mcEvent' = [op |-> "clear", key |-> "a", data |-> NoData,
                   evicted |-> KeysOf(mcCache)]
    /\ mcOrder' = <<>>
    /\ UNCHANGED <<retryVars, breakerVars, cacheVars, delayVars,
                   gateVars, healVars>>

\* MemoryCache.cleanup()
McCleanup ==
    /\ McOp
    /\ mcCache' = MemoryCleanup(mcCache, mcNow)
    /\ mcEvent' = [op |-> "cleanup", key |-> "a", data |-> NoData,
                   evicted |-> KeysOf(mcCache) \ KeysOf(mcCache')]
    /\ mcOrder' = Present(mcOrder, mcCache')
    /\ UNCHANGED <<retryVars, breakerVars, cacheVars, delayVars,
                   gateVars, healVars>>

\* Time passes (followed only while the run has calls left).
McTick ==
    /\ mcNow < MaxTime
    /\ mcOps < MaxMemOps
    /\ mcNow' = mcNow + 1
    /\ mcEvent' = [op |-> "tick", key |-> "a", data |-> NoData, evicted |-> {}]
    /\ UNCHANGED <<mcMaxSize, mcCache, mcOrder, mcOps>>
    /\ UNCHANGED <<retryVars, breakerVars, cacheVars, delayVars,
                   gateVars, healVars>>

NextMemory ==
    \/ \E key \in MemKeys, data \in Values, ttl \in Ttls : McSet(key, data, ttl)
    \/ \E key \in MemKeys : McGet(key)
    \/ \E key \in MemKeys : McDelete(key)
    \/ McClear
    \/ McCleanup
    \/ McTick

(***************************************************************************)
(* retryUtils.js : calculateDelay and addJitter on their own                *)
(***************************************************************************)

\* Largest attempt number the delay is computed for.
MaxAttemptArg == 3

\* A delay that is not computed yet.
NoDelay == NoTime

\* The arguments explored, in units of 10 ms: a zero and positive base
\* delays, factors below, at and above 1, caps below and above the base.
DelayArgs ==
    [attempt : {0},
     baseDelay : {0, 10, 25},
     backoffFactor : {0, 1, 2, 3},
     maxDelay : {0, 30, 100}]

InitDelay ==
    /\ dArgs \in DelayArgs
    /\ dDelay = NoDelay
    /\ dPrev = NoDelay
    /\ dJittered = NoDelay

\* const delay = calculateDelay(attempt, baseDelay, backoffFactor, maxDelay)
DelayCalculate ==
    /\ dDelay = NoDelay
    /\ dDelay' = calculateDelay(dArgs.attempt, dArgs.baseDelay,
                                dArgs.backoffFactor, dArgs.maxDelay)
    /\ UNCHANGED <<dArgs, dPrev, dJittered>>
    /\ UNCHANGED <<retryVars, breakerVars, cacheVars, memVars,
                   gateVars, healVars>>

\* const delayWithJitter = addJitter(delay)
DelayAddJitter ==
    /\ dDelay # NoDelay
    /\ dJittered = NoDelay
    /\ dJittered' \in addJitter(dDelay)
    /\ UNCHANGED <<dArgs, dDelay, dPrev>>
    /\ UNCHANGED <<retryVars, breakerVars, cacheVars, memVars,
                   gateVars, healVars>>

\* attempt++, and the delay of the next attempt with the same policy.
DelayNextAttempt ==
    /\ dDelay # NoDelay
    /\ dArgs.attempt < MaxAttemptArg
    /\ dArgs' = [dArgs EXCEPT !.attempt = @ + 1]
    /\ dPrev' = dDelay
    /\ dDelay' = calculateDelay(dArgs.attempt + 1, dArgs.baseDelay,
                                dArgs.backoffFactor, dArgs.maxDelay)
    /\ dJittered' = NoDelay
    /\ UNCHANGED <<retryVars, breakerVars, cacheVars, memVars,
                   gateVars, healVars>>

NextDelay ==
    \/ DelayCalculate
    \/ DelayAddJitter
    \/ DelayNextAttempt

(***************************************************************************)
(* Specifications                                                          *)
(***************************************************************************)

\* calculateDelay and addJitter not applied on their own.
DelayUnused ==
    /\ dArgs = [attempt |-> 0, baseDelay |-> 0, backoffFactor |-> 0,
                maxDelay |-> 0]
    /\ dDelay = NoDelay
    /\ dPrev = NoDelay
    /\ dJittered = NoDelay

\* A MemoryCache nobody uses: new MemoryCache(), maxSize = MAX_ENTRIES.
MemoryUnused == MemoryConstructed(MAX_ENTRIES)

\* No retry sequence runs through a breaker.
GateUnused ==
    /\ gOpCalls = 0
    /\ gOpenedAt = 0
    /\ gWithin = TRUE

\* Operations may fail.
NotHealed == cbHealed = FALSE

\* A breaker nobody uses (for the specifications of the other components).
BreakerUnused ==
    /\ cbCfg = [failureThreshold |-> 0, resetTimeout |-> 0,
                halfOpenSuccessThreshold |-> 0]
    /\ CbConstructed

\* Each specification starts every component as constructed and then runs one.
InitRetryRun ==
    (InitRetry /\ BreakerUnused /\ InitCache /\ MemoryUnused
       /\ DelayUnused
       /\ GateUnused /\ NotHealed)

InitBreakerRun ==
    (InitBreaker /\ InitRetry /\ InitCache /\ MemoryUnused
       /\ DelayUnused
       /\ GateUnused /\ NotHealed)

\* The breakers a retry sequence runs through: a cooldown as long as the
\* first backoff sleep (100 ms), and one longer than all sleeps together (2 s).
InitGatedRun ==
    (cbCfg \in [failureThreshold : {1, 2}, resetTimeout : {10, 200},
                halfOpenSuccessThreshold : {0}]
       /\ CbConstructed /\ InitRetry /\ InitCache /\ MemoryUnused
       /\ DelayUnused
       /\ GateUnused /\ NotHealed)

InitCacheRun ==
    (InitCache /\ InitRetry /\ BreakerUnused /\ MemoryUnused
       /\ DelayUnused
       /\ GateUnused /\ NotHealed)

InitWithCacheRun ==
    (InitWithCache /\ InitRetry /\ BreakerUnused /\ MemoryUnused
       /\ DelayUnused
       /\ GateUnused /\ NotHealed)

InitFaultyRun ==
    (InitFaulty /\ InitRetry /\ BreakerUnused /\ MemoryUnused
       /\ DelayUnused
       /\ GateUnused /\ NotHealed)

InitMemoryRun ==
    (InitMemory /\ InitRetry /\ BreakerUnused /\ InitCache /\ DelayUnused
       /\ GateUnused /\ NotHealed)

InitDelayRun ==
    (InitDelay /\ InitRetry /\ BreakerUnused /\ InitCache /\ MemoryUnused
       /\ GateUnused /\ NotHealed)

InitFallbackRun ==
    (InitFaulty /\ InitRetry /\ BreakerUnused /\ MemoryUnused
       /\ DelayUnused
       /\ GateUnused /\ NotHealed)

InitDurableRun ==
    (DurableConstructed /\ InitRetry /\ BreakerUnused /\ MemoryUnused
       /\ DelayUnused
       /\ GateUnused /\ NotHealed)

SpecRetry == InitRetryRun /\ [][NextRetry]_vars

SpecBreaker == InitBreakerRun /\ [][NextBreaker]_vars

SpecRecover == InitBreakerRun /\ [][NextRecover]_vars /\ FairRecover

SpecGated == InitGatedRun /\ [][NextGated]_vars

SpecCache == InitCacheRun /\ [][NextCache]_vars

SpecWithCache == InitWithCacheRun /\ [][NextWithCache]_vars

SpecFaulty == InitFaultyRun /\ [][NextFaulty]_vars

SpecMemory == InitMemoryRun /\ [][NextMemory]_vars

SpecDelay == InitDelayRun /\ [][NextDelay]_vars

SpecDurable == InitDurableRun /\ [][NextDurable]_vars

SpecFallback == InitFallbackRun /\ [][NextFallback]_vars


(***************************************************************************)
(* Properties of retryWithBackoff (checked under SpecRetry)                *)
(***************************************************************************)

\* C1: one call invokes operation at most maxAttempts times and one at a
\* time: an invocation is in flight only while the call awaits it, never
\* during a backoff sleep, and every invocation after the first follows a
\* finished sleep. When every attempt failed with an error the retry
\* predicate accepts, the call has made exactly maxAttempts invocations when
\* it rejects, and it rejects once they are made.
C1_AttemptsBoundedSequential ==
    /\ rCalls <= rPolicy.maxAttempts
    /\ rInFlight \in {0, 1}
    /\ (rInFlight = 1) <=> (rPc = "awaitOp")
    /\ rPc = "awaitOp" => rCalls = rSleeps + 1
    /\ rPc = "sleeping" => rCalls = rSleeps /\ rCalls < rPolicy.maxAttempts
    /\ (rPc = "rejected" /\ rAllRetryable) => rCalls = rPolicy.maxAttempts
    /\ (rAllRetryable /\ rCalls = rPolicy.maxAttempts /\ rInFlight = 0
          /\ rPc # "resolved")
       => rPc = "rejected" /\ rOutcome.kind = "error"

\* C1 witness: three attempts, all failed with retryable errors, then rejected.
C1_Witness ==
    /\ rPc = "rejected"
    /\ rAllRetryable
    /\ rPolicy.maxAttempts = 3
    /\ rCalls = 3
    /\ rSleeps = 2

\* C2: once an attempt has failed with an error the retry predicate refuses,
\* the call is rejected with that error, without a sleep after it and without
\* another invocation; when it is the first failure the operation was invoked
\* exactly once. With the default predicate a 4xx status other than 429 is
\* such an error.
C2_NonRetryableStops ==
    /\ ~rAllRetryable =>
          /\ rPc = "rejected"
          /\ rOutcome = [kind |-> "error", error |-> rThrown]
          /\ rCalls = rSleeps + 1
          /\ rInFlight = 0
          /\ (rSleeps = 0 => rCalls = 1)
    /\ (/\ rPolicy.retryCondition = "default"
        /\ rThrown.response
        /\ rThrown.status >= 400 /\ rThrown.status < 500 /\ rThrown.status # 429)
       => ~rAllRetryable

\* C2 witness: a 404 on the first of three attempts ends the call at once.
C2_Witness ==
    /\ rPc = "rejected"
    /\ rPolicy.retryCondition = "default"
    /\ rPolicy.maxAttempts = 3
    /\ rThrown = [response |-> TRUE, status |-> 404]
    /\ rCalls = 1
    /\ rSleeps = 0

(***************************************************************************)
(* Properties of the CircuitBreaker (checked under SpecBreaker)            *)
(***************************************************************************)

\* C3: counting from a CLOSED breaker with failureCount = 0, fewer than
\* failureThreshold failed calls in a row leave it CLOSED (failureCount being
\* their number), the failure that makes them failureThreshold leaves it OPEN,
\* and a successful call in CLOSED leaves failureCount = 0.
C3_OpensAtThreshold ==
    /\ (cbConsec # NoRun /\ cbConsec < FailureThreshold)
       => cbState = "CLOSED" /\ cbFailureCount = cbConsec
    /\ cbConsec >= FailureThreshold => cbState # "CLOSED"
    /\ (cbConsec >= FailureThreshold /\ cbEvent.kind = "failure")
       => cbState = "OPEN"
    /\ (cbEvent.kind = "success" /\ cbEvent.from = "CLOSED")
       => cbState = "CLOSED" /\ cbFailureCount = 0 /\ cbConsec = 0

\* C3 witness: the second of two failures in a row opens a breaker whose
\* threshold is 2.
C3_Witness ==
    /\ cbCfg.failureThreshold = 2
    /\ cbConsec = 2
    /\ cbEvent.kind = "failure"
    /\ cbEvent.from = "CLOSED"
    /\ cbState = "OPEN"

\* C4: an execute call that finds the breaker OPEN with
\* now - lastFailureTime <= resetTimeout is rejected, invokes no operation
\* and changes no field of the breaker.
C4_OpenRejects ==
    [][(/\ cbEvent'.kind \in {"execute", "rejected"}
        /\ cbState = "OPEN"
        /\ cbNow - cbLastFailureTime <= ResetTimeout)
       => /\ cbEvent'.kind = "rejected"
          /\ cbPc' = cbPc
          /\ UNCHANGED <<cbState, cbFailureCount, cbSuccessCount,
                         cbLastFailureTime>>]_vars

\* C4 witness: a call was rejected by the OPEN breaker.
C4_Witness ==
    /\ cbEvent.kind = "rejected"
    /\ cbState = "OPEN"
    /\ cbNow - cbLastFailureTime <= ResetTimeout

\* C5: an execute call that finds the breaker OPEN with
\* now - lastFailureTime > resetTimeout leaves it HALF_OPEN with
\* successCount = 0 and invokes the operation of that call, and no other.
C5_ProbeAfterTimeout ==
    [][(/\ cbEvent'.kind \in {"execute", "rejected"}
        /\ cbState = "OPEN"
        /\ cbNow - cbLastFailureTime > ResetTimeout)
       => /\ cbEvent'.kind = "execute"
          /\ cbState' = "HALF_OPEN"
          /\ cbSuccessCount' = 0
          /\ cbPc[cbEvent'.caller] = "idle"
          /\ cbPc' = [cbPc EXCEPT ![cbEvent'.caller] = "awaitOp"]
          /\ UNCHANGED <<cbFailureCount, cbLastFailureTime>>]_vars

\* C5 witness: a call found the breaker OPEN after the cooldown, with a
\* successCount left over from an earlier recovery, and is now in flight.
C5_Witness ==
    /\ cbEvent.kind = "execute"
    /\ cbEvent.from = "OPEN"
    /\ cbState = "HALF_OPEN"
    /\ cbSuccessCount = 0
    /\ cbPc[cbEvent.caller] = "awaitOp"
    /\ cbFailureCount > FailureThreshold

C7_HalfOpenFailureOpens ==
    (cbEvent.kind = "failure" /\ cbEvent.from = "HALF_OPEN")
    => cbState = "OPEN" /\ cbLastFailureTime = cbNow


(***************************************************************************)
(* Properties of withCache (checked under SpecWithCache) and of the        *)
(* HybridCache (checked under SpecCache)                                   *)
(***************************************************************************)

\* The fast tier holds key, unexpired.
HeldInMemory(key) ==
    \E i \in 1..Len(memoryCache) :
        memoryCache[i].key = key /\ cNow <= memoryCache[i].expiresAt

\* The durable tier holds key, unexpired.
HeldInStorage(key) ==
    localStorage[key] # NoItem /\ cNow <= localStorage[key].expiresAt

\* C8 as stated: a call of a wrapped function that starts after an earlier
\* call with the same key has returned a result, before the ttl of that
\* result is over (and with no delete or clear of the key in between), does
\* not invoke the operation and returns that result.
C8_SecondCallHits ==
    LET first == lastSet[cEvent.key] IN
    (cEvent.op = "call" /\ first.by = "call" /\ first.live /\ cNow <= first.until)
    => ~cEvent.invoked /\ cEvent.data = first.data

\* C8 amended: a call of a wrapped function whose key is still held,
\* unexpired, by the fast tier or by the durable tier does not invoke the
\* operation and returns the value that tier holds (the fast tier's first).
C8_HeldKeyHits ==
    [][cEvent'.op = "call" =>
         LET k == cEvent'.key IN
         (HeldInMemory(k) \/ HeldInStorage(k)) =>
            /\ ~cEvent'.invoked
            /\ wcPc' = wcPc
            /\ cEvent'.data =
                 IF HeldInMemory(k)
                 THEN memoryCache[CHOOSE i \in 1..Len(memoryCache) :
                                      memoryCache[i].key = k].data
                 ELSE localStorage[k].data]_vars

\* C8 witness: the second call for a key returned what the first one stored,
\* without invoking the operation.
C8_Witness ==
    /\ cEvent.op = "call"
    /\ ~cEvent.invoked
    /\ lastSet[cEvent.key].by = "call"
    /\ cEvent.data = lastSet[cEvent.key].data
    /\ \A p \in WcCallers : wcPc[p] = "idle"

\* C9: when the wrapped operation fails, the wrapper throws that same error
\* and leaves both tiers and the counters as they were; and a call whose key
\* no tier holds unexpired invokes the operation.
C9_FailureNotCached ==
    [][/\ cEvent'.op = "reject" =>
            /\ cEvent'.thrown = cEvent'.error
            /\ UNCHANGED <<memoryCache, localStorage, metadata, stats>>
       /\ (cEvent'.op = "call"
             /\ ~HeldInMemory(cEvent'.key) /\ ~HeldInStorage(cEvent'.key))
          => cEvent'.invoked /\ cEvent'.data = NoData]_vars

\* C9 witness: an operation has failed, nothing was stored, and no call is
\* in flight.
C9_Witness ==
    /\ cEvent.op = "reject"
    /\ cEvent.thrown = cEvent.error
    /\ stats.sets = 0
    /\ memoryCache = <<>>
    /\ localStorage[cEvent.key] = NoItem
    /\ \A p \in WcCallers : wcPc[p] = "idle"

\* C10 as stated, for a key whose latest set wrote the durable tier at once:
\* a get later than the expiry now + ttl of the latest set of the key
\* returns null.
C10_NothingAfterExpiry ==
    LET latest == lastSet[cEvent.key] IN
    (cEvent.op = "get" /\ latest.by # "none" /\ latest.durable
       /\ cNow > latest.until)
    => cEvent.data = NoData


(***************************************************************************)
(* Further properties of retryWithBackoff (checked under SpecRetry)        *)
(***************************************************************************)

\* C17: when the call rejects, it rejects with the error thrown by the last
\* invocation of the operation it made, whatever earlier invocations threw.
C17_LastErrorPropagates ==
    rPc = "rejected" =>
        /\ rCalls >= 1
        /\ rOutcome = [kind |-> "error", error |-> rThrown]

\* C17 witness: three attempts failed, the first with another error than the
\* last, and the call rejected with the last one.
C17_Witness ==
    /\ rPc = "rejected"
    /\ rCalls = 3
    /\ rFirstError # rThrown
    /\ rOutcome.error = rThrown

\* C18: with the default predicate, a failed attempt that is not the last one
\* is followed by a retry exactly when the error carries no response or its
\* status is >= 500 or 429; with any other status (302, 404, 499 here) the
\* call rejects.
C18_DefaultPredicate ==
    [][(/\ rPc = "awaitOp"
        /\ rPc' \in {"sleeping", "rejected"}
        /\ rPolicy.retryCondition = "default"
        /\ rAttempt < rPolicy.maxAttempts - 1)
       => /\ (rPc' = "sleeping") <=>
                (\/ ~rThrown'.response
                 \/ rThrown'.status >= 500
                 \/ rThrown'.status = 429)
          /\ rThrown'.response /\ rThrown'.status \in {302, 404, 499}
                => rPc' = "rejected"]_vars

\* C18 witness: a 429 on the first of several attempts is being retried.
C18_Witness ==
    /\ rPc = "sleeping"
    /\ rPolicy.retryCondition = "default"
    /\ rThrown = [response |-> TRUE, status |-> 429]
    /\ rCalls = 1

\* C19 as stated: with the default predicate, once the operation has thrown an
\* application-level error constructed with isRetryable = false, the call
\* has rejected after that one invocation, without a backoff sleep.
C19_AppErrorNotRetried ==
    (rPolicy.retryCondition = "default" /\ rFirstError = NonRetryableAppError)
    => rPc = "rejected" /\ rCalls = 1 /\ rSleeps = 0

\* The sum delay(0) + ... + delay(n - 1) of the un-jittered backoff delays.
RECURSIVE UnjitteredSum(_, _)
UnjitteredSum(policy, n) ==
    IF n = 0 THEN 0
    ELSE UnjitteredSum(policy, n - 1)
           + Min(policy.baseDelay * Pow(policy.backoffFactor, n - 1),
                 policy.maxDelay)

\* C20: a call that returns after k - 1 retried failures has invoked the
\* operation exactly k times (k <= maxAttempts), returns a value, and has
\* slept at least the sum of the un-jittered delays delay(0..k-2); with
\* {maxAttempts 3, baseDelay 10, backoffFactor 2, maxDelay 100} and two
\* failures that is 3 invocations and at least 10 + 20.
C20_SucceedsAfterRetries ==
    rPc = "resolved" =>
        /\ rCalls = rSleeps + 1
        /\ rCalls <= rPolicy.maxAttempts
        /\ rInFlight = 0
        /\ rOutcome.kind = "value"
        /\ rElapsed >= UnjitteredSum(rPolicy, rCalls - 1)
        /\ (/\ rPolicy = [maxAttempts |-> 3, baseDelay |-> 10, backoffFactor |-> 2,
                          maxDelay |-> 100, retryCondition |-> rPolicy.retryCondition]
            /\ rSleeps = 2)
           => rCalls = 3 /\ rElapsed >= 30

\* C20 witness: the third attempt of the example policy succeeded after two
\* retried failures.
C20_Witness ==
    /\ rPc = "resolved"
    /\ rPolicy = [maxAttempts |-> 3, baseDelay |-> 10, backoffFactor |-> 2,
                  maxDelay |-> 100, retryCondition |-> "default"]
    /\ rCalls = 3
    /\ rSleeps = 2
    /\ rElapsed >= 30


\* C21 as stated: when a call site with the default predicate and a budget
\* of two or more attempts finally fails, the error it delivers carries the
\* number of invocations actually made, and its isRetryable flag is false
\* when the last failure was one the predicate refuses and true when the
\* budget was exhausted on failures the predicate accepts.
C21_WrappedErrorTellsCases ==
    (rPc = "rejected" /\ rPolicy.retryCondition = "default"
       /\ rPolicy.maxAttempts >= 2)
    => /\ Delivered.kind = "error"
       /\ Delivered.error.attempts = rCalls
       /\ Delivered.error.isRetryable = rAllRetryable


\* C27 as stated: when attempt i (counted from 1) has failed and the call
\* goes to sleep, the sleep lasts a jittered
\* min(baseDelay * backoffFactor^i, maxDelay): at least that long, and less
\* than 1.1 times that.
C27_SleepsDelayOfAttemptNumber ==
    [][(rPc = "awaitOp" /\ rPc' = "sleeping")
       => LET i == rCalls
              d == Min(rPolicy.baseDelay * Pow(rPolicy.backoffFactor, i),
                       rPolicy.maxDelay)
              slept == rElapsed' - rElapsed
          IN d <= slept /\ 10 * slept < 11 * d]_vars

\* C27 amended: when attempt i (counted from 1) has failed with an error the
\* predicate accepts and i is not the last attempt, the call goes to sleep,
\* for a jittered min(baseDelay * backoffFactor^(i - 1), maxDelay); it makes
\* attempt i + 1 when the sleep is over.
C27_SleepsDelayOfAttemptIndex ==
    [][/\ (rPc = "awaitOp" /\ rPc' = "sleeping")
          => LET i == rCalls
                 d == Min(rPolicy.baseDelay * Pow(rPolicy.backoffFactor, i - 1),
                          rPolicy.maxDelay)
                 slept == rElapsed' - rElapsed
             IN /\ d <= slept /\ 10 * slept < 11 * d
                /\ i < rPolicy.maxAttempts
                /\ RetryCondition(rPolicy, rThrown')
       /\ (rPc = "awaitOp" /\ rPc' = "rejected")
          => \/ rCalls = rPolicy.maxAttempts
             \/ ~RetryCondition(rPolicy, rThrown')
       /\ rPc = "sleeping" => rPc' = "loop" /\ rElapsed' = rElapsed
       /\ (rPc = "loop" /\ rSleeps > 0 /\ rCalls = rSleeps)
          => rPc' = "awaitOp" /\ rCalls' = rCalls + 1]_vars

\* C27 witness: with baseDelay 10, factor 2 and maxDelay 100, the call sleeps
\* after its second failed attempt, having slept 10 and then 21.
C27_Witness ==
    /\ rPc = "sleeping"
    /\ rPolicy.backoffFactor = 2 /\ rPolicy.maxDelay = 100
    /\ rPolicy.maxAttempts = 3
    /\ rCalls = 2
    /\ rSleeps = 2
    /\ rElapsed = 31


(***************************************************************************)
(* Properties of calculateDelay and addJitter (checked under SpecDelay)    *)
(***************************************************************************)

\* C25: the delay computed for attempt n (0-based) is
\* baseDelay * backoffFactor^n when that does not exceed maxDelay and
\* maxDelay otherwise; it never exceeds maxDelay, and with backoffFactor >= 1
\* it is not smaller than the delay computed for attempt n - 1.
C25_DelayIsCappedPower ==
    dDelay # NoDelay =>
        LET raw == dArgs.baseDelay * Pow(dArgs.backoffFactor, dArgs.attempt) IN
        /\ raw <= dArgs.maxDelay => dDelay = raw
        /\ raw > dArgs.maxDelay => dDelay = dArgs.maxDelay
        /\ dDelay <= dArgs.maxDelay
        /\ (dArgs.backoffFactor >= 1 /\ dPrev # NoDelay) => dPrev <= dDelay

\* C25 witness: with baseDelay 10, factor 2 and maxDelay 30 the delay of
\* attempt 2 is capped at 30, after 20 for attempt 1.
C25_Witness ==
    /\ dArgs = [attempt |-> 2, baseDelay |-> 10, backoffFactor |-> 2,
                maxDelay |-> 30]
    /\ dPrev = 20
    /\ dDelay = 30

\* C26 as stated: for every delay d >= 0, addJitter(d) lies in [d, 1.1 * d).
C26_JitterInHalfOpenRange ==
    dJittered # NoDelay =>
        /\ dDelay <= dJittered
        /\ 10 * dJittered < 11 * dDelay

\* C26 amended: addJitter(d) lies in [d, 1.1 * d) for every d > 0 and is 0
\* for d = 0; it is never smaller than d.
C26_JitterOneSided ==
    dJittered # NoDelay =>
        /\ dDelay <= dJittered
        /\ dDelay > 0 => 10 * dJittered < 11 * dDelay
        /\ dDelay = 0 => dJittered = 0

\* C26 witness: a delay of 30 was lengthened by jitter, to 32.
C26_Witness ==
    /\ dDelay = 30
    /\ dJittered = 32


(***************************************************************************)
(* Further properties of the HybridCache (checked under SpecCache)         *)
(***************************************************************************)

\* C11: a get of key k that directly follows a set of k (no other operation
\* and no time in between) returns the value that set stored, whatever the
\* two tiers held before and whatever became of the durable write.
C11_SetThenGet ==
    [][(cEvent.op = "set" /\ cEvent'.op = "get" /\ cEvent'.key = cEvent.key)
       => cEvent'.data = cEvent.data]_vars

\* C11 witness: with another key filling the fast tier, k was set with the
\* durable write failing, and the get that followed returned the value.
C11_Witness ==
    LET k == cEvent.key IN
    /\ cEvent.op = "get"
    /\ lastSet[k].by = "set" /\ ~lastSet[k].durable
    /\ cEvent.data = lastSet[k].data
    /\ localStorage[k] = NoItem
    /\ stats.sets = 2 /\ stats.hits = 1 /\ cOps = 3

\* C14: a get of a key that the fast tier does not hold unexpired and the
\* durable tier does returns the durable value, counts one hit and no miss,
\* and leaves the key in the fast tier: reading the fast tier right after
\* gives the same value.
C14_Promotion ==
    [][(cEvent'.op = "get" /\ ~HeldInMemory(cEvent'.key)
                           /\ HeldInStorage(cEvent'.key))
       => /\ cEvent'.data = localStorage[cEvent'.key].data
          /\ stats'.hits = stats.hits + 1
          /\ stats'.misses = stats.misses
          /\ MemoryGet(memoryCache', cEvent'.key, cNow').data = cEvent'.data]_vars

\* C14 witness: a get has returned a value and left it in the fast tier with
\* an expiry later than the one its set asked for, which only a promotion
\* does.
C14_Witness ==
    LET k == cEvent.key IN
    /\ cEvent.op = "get"
    /\ cEvent.data # NoData
    /\ MemHas(memoryCache, k)
    /\ MemItem(memoryCache, k).data = cEvent.data
    /\ MemItem(memoryCache, k).expiresAt = cNow + FiveMinutes
    /\ MemItem(memoryCache, k).expiresAt > lastSet[k].until

\* C15 as stated, in the case it names: after a set whose first write failed
\* with a quota error and whose retry succeeded, the keys that have a stored
\* value are the keys that have a metadata record.
C15_StoreMatchesMetadata ==
    (cEvent.op = "set" /\ cEvent.w.w1 = "quota" /\ cEvent.w.w2)
    => {k \in Keys : localStorage[k] # NoItem}
         = {metadata[i].key : i \in 1..Len(metadata)}


\* C22: a get adds exactly one to hits + misses and leaves sets, a set
\* adds exactly one to sets and leaves hits and misses, delete, cleanup and
\* getStats (and the passing of time) change no counter, and clear leaves
\* the counters (0, 0, 0) as the constructor does; so hits + misses and sets
\* count the gets and the sets since construction or the last clear.
C22_CountersExact ==
    [][/\ cEvent'.op = "get" =>
            /\ stats'.hits + stats'.misses = stats.hits + stats.misses + 1
            /\ stats'.hits >= stats.hits /\ stats'.misses >= stats.misses
            /\ stats'.sets = stats.sets
       /\ cEvent'.op = "set" =>
            /\ stats'.sets = stats.sets + 1
            /\ stats'.hits = stats.hits /\ stats'.misses = stats.misses
       /\ cEvent'.op \in {"delete", "cleanup", "getStats", "tick"} =>
            stats' = stats
       /\ cEvent'.op = "clear" =>
            stats' = [hits |-> 0, misses |-> 0, sets |-> 0]
       /\ cOps = 0 => stats = [hits |-> 0, misses |-> 0, sets |-> 0]]_vars

\* C22 witness: after a set, a get that hit (through a promotion, the fast
\* tier's copy having expired) and a get that missed, the counters are 1, 1, 1.
C22_Witness ==
    /\ cOps = 3
    /\ cEvent.op = "get" /\ cEvent.data = NoData
    /\ stats = [hits |-> 1, misses |-> 1, sets |-> 1]
    /\ \E k \in Keys : /\ MemHas(memoryCache, k)
                        /\ MemItem(memoryCache, k).expiresAt > lastSet[k].until

\* C23 as stated: the hitRate that getStats reports is hits / (hits + misses)
\* of the HybridCache's counters rounded to two decimals (in hundredths
\* here), and 0 when no get has been made.
C23_HitRateReported ==
    cEvent.op = "getStats" =>
        /\ 2 * (stats.hits + stats.misses) * cEvent.result.hitRate
              <= 200 * stats.hits + (stats.hits + stats.misses)
        /\ 2 * (stats.hits + stats.misses) * (cEvent.result.hitRate + 1)
              > 200 * stats.hits + (stats.hits + stats.misses)
              \/ stats.hits + stats.misses = 0
        /\ stats.hits + stats.misses = 0 => cEvent.result.hitRate = 0


\* C24 as stated: after delete(k) neither tier holds k, and a get of k that
\* follows returns null; after clear() neither tier holds any key, and a get
\* of any key that follows returns null, whatever sets came before.
C24_RemovalPropagates ==
    [][/\ cEvent'.op = "delete" =>
            /\ ~MemHas(memoryCache', cEvent'.key)
            /\ localStorage'[cEvent'.key] = NoItem
       /\ cEvent'.op = "clear" =>
            /\ memoryCache' = <<>>
            /\ \A k \in Keys : localStorage'[k] = NoItem
       /\ (cEvent.op = "delete" /\ cEvent'.op = "get"
             /\ cEvent'.key = cEvent.key)
          => cEvent'.data = NoData
       /\ (cEvent.op = "clear" /\ cEvent'.op = "get")
          => cEvent'.data = NoData]_vars


\* C30: a set whose durable write fails with a quota error runs cleanup()
\* once (afterwards no metadata record is expired, the items of the expired
\* records are gone and the other records are kept) and calls setItem for
\* the value a second time and no more; when that fails too the value is not
\* stored, and nothing is thrown. A write that fails with another error is
\* given up at once: no cleanup, no second setItem, store and metadata as
\* they were, nothing thrown.
C30_QuotaCleanupRetryOnce ==
    [][cEvent'.op = "set" =>
         LET w == cEvent'.w
             k == cEvent'.key
             expired == {metadata[i].key : i \in {j \in 1..Len(metadata) :
                                             cNow > metadata[j].expiresAt}}
         IN /\ ~cEvent'.threw
            /\ w.w1 = "quota" =>
                 /\ cEvent'.cleanups = 1
                 /\ cEvent'.setItems = 2
                 /\ \A i \in 1..Len(metadata') :
                        ~(cNow > metadata'[i].expiresAt)
                 /\ \A k2 \in expired \ {k} : localStorage'[k2] = NoItem
                 /\ \A k2 \in Keys \ (expired \cup {k}) :
                        localStorage'[k2] = localStorage[k2]
                 /\ metadata' = SelectSeq(metadata,
                                          LAMBDA e : e.key \notin expired)
                 /\ w.w2 => localStorage'[k] =
                                [data |-> cEvent'.data,
                                 expiresAt |-> lastSet'[k].until]
                 /\ ~w.w2 => localStorage'[k] =
                                 IF k \in expired THEN NoItem
                                 ELSE localStorage[k]
            /\ w.w1 = "error" =>
                 /\ cEvent'.cleanups = 0
                 /\ cEvent'.setItems = 1
                 /\ localStorage' = localStorage
                 /\ metadata' = metadata
            /\ w.w1 = "ok" =>
                 /\ cEvent'.cleanups = 0
                 /\ cEvent'.setItems = 1]_vars

\* C30 witness: two sets and nothing else; the first stored a key durably,
\* the second, of the other key and after the first one's expiry, met a
\* quota error twice: the expired item was cleaned up and the value dropped.
C30_Witness ==
    LET k == cEvent.key IN
    /\ cOps = 2
    /\ cEvent.op = "set"
    /\ cEvent.w.w1 = "quota" /\ ~cEvent.w.w2
    /\ cEvent.cleanups = 1 /\ cEvent.setItems = 2
    /\ localStorage[k] = NoItem
    /\ \E k2 \in Keys \ {k} :
          /\ lastSet[k2].durable
          /\ cNow > lastSet[k2].until
          /\ localStorage[k2] = NoItem
    /\ metadata = <<>>


(***************************************************************************)
(* Properties of a MemoryCache (checked under SpecMemory)                  *)
(***************************************************************************)

\* C12: after every call the map holds at most maxSize entries, and the
\* insertion of a key it does not hold into a map of maxSize entries leaves
\* exactly maxSize entries.
C12_SizeBounded ==
    [][/\ Len(mcCache') <= mcMaxSize
       /\ (mcEvent'.op = "set" /\ ~MemHas(mcCache, mcEvent'.key)
             /\ Len(mcCache) = mcMaxSize)
          => Len(mcCache') = mcMaxSize /\ MemHas(mcCache', mcEvent'.key)]_vars

\* C12 witness: a third distinct key was inserted into a map of maxSize 2
\* whose two entries were unexpired; it holds two entries.
C12_Witness ==
    /\ mcMaxSize = 2
    /\ mcEvent.op = "set"
    /\ Cardinality(mcEvent.evicted) = 1
    /\ mcEvent.key \notin mcEvent.evicted
    /\ Len(mcCache) = 2
    /\ mcOps = 3
    /\ \A i \in 1..Len(mcCache) : mcNow <= mcCache[i].expiresAt

\* C13 as stated: the insertion of a key the map does not hold into a map of
\* maxSize entries evicts exactly one entry, the least recently accessed one
\* (accessed: inserted as a new key, or returned by get).
C13_EvictsLeastRecent ==
    [][(mcEvent'.op = "set" /\ ~MemHas(mcCache, mcEvent'.key)
          /\ Len(mcCache) = mcMaxSize)
       => mcEvent'.evicted = {Head(mcOrder)}]_vars


\* C28 as stated: a set on a key the map already holds evicts nothing: the
\* map holds the same keys after it as before, as many as before, also when
\* it holds maxSize entries.
C28_OverwriteEvictsNothing ==
    [][(mcEvent'.op = "set" /\ MemHas(mcCache, mcEvent'.key))
       => /\ KeysOf(mcCache') = KeysOf(mcCache)
          /\ Len(mcCache') = Len(mcCache)
          /\ mcEvent'.evicted = {}]_vars

\* C29 as stated: a set on a key k the map already holds leaves k where it
\* was in the eviction order: k comes before another key after the set
\* exactly if it came before it, also when the map is full and k is first.
C29_OverwriteKeepsPlace ==
    [][(mcEvent'.op = "set" /\ MemHas(mcCache, mcEvent'.key))
       => LET k == mcEvent'.key IN
          \A other \in (KeysOf(mcCache) \cap KeysOf(mcCache')) \ {k} :
              (Pos(mcCache, k) < Pos(mcCache, other))
                 <=> (Pos(mcCache', k) < Pos(mcCache', other))]_vars


(***************************************************************************)
(* Failures of the cache layer (checked under SpecFaulty)                  *)
(***************************************************************************)

\* C16: no call of a wrapped function throws at its cache read, and a read
\* that meets an unparsable stored item (the fast tier not holding the key)
\* is a miss, so the operation is invoked; when the operation succeeds the
\* call returns the operation's result and throws nothing, whatever the
\* durable write did (success, quota error, serialization error).
C16_CacheFailuresContained ==
    [][/\ cEvent'.op = "call" =>
            /\ ~cEvent'.threw
            /\ (~HeldInMemory(cEvent'.key)
                  /\ localStorage[cEvent'.key] = Unparsable)
               => cEvent'.invoked /\ wcPc' # wcPc
       /\ cEvent'.op = "resolve" =>
            /\ ~cEvent'.threw
            /\ cEvent'.returned = cEvent'.data]_vars

\* C16 witness: a wrapped call found an unparsable item, invoked its
\* operation, and returned the result although the durable write failed
\* with a serialization error, which left the unparsable item in place.
C16_Witness ==
    /\ cEvent.op = "resolve"
    /\ cEvent.w.w1 = "error"
    /\ cEvent.returned = cEvent.data
    /\ cEvent.returned \in Values
    /\ localStorage[cEvent.key] = Unparsable
    /\ stats.misses >= 1


(***************************************************************************)
(* Properties of the durable tier on its own (checked under SpecDurable)   *)
(***************************************************************************)

\* The metadata records of before whose keys after does not track.
Evicted(before, after) ==
    {before[i] : i \in {j \in 1..Len(before) : ~MetaHas(after, before[j].key)}}

\* C31: after every PersistentCache.set whose setItem calls all succeed the
\* metadata tracks at most MAX_ENTRIES keys: when the set makes the count
\* exceed MAX_ENTRIES it removes floor(20 % of MAX_ENTRIES) records, none of
\* which expires later than a record it keeps, expired or not; otherwise it
\* removes nothing.
C31_DurableGrowthBounded ==
    [][(cEvent'.op = "set" /\ cEvent'.ok)
       => LET put == MetaPut(metadata, cEvent'.key, cNow + cEvent'.ttl)
              gone == Evicted(put, metadata')
              kept == Evicted(put, <<>>) \ gone
          IN /\ Len(metadata') <= DurableMaxEntries
             /\ IF Len(put) > DurableMaxEntries
                THEN /\ Cardinality(gone) = (DurableMaxEntries * 2) \div 10
                     /\ \A g \in gone, k \in kept : g.expiresAt <= k.expiresAt
                ELSE gone = {}]_vars

\* C31 witness: the first call on a tier of MAX_ENTRIES entries, at time 0
\* (nothing is expired), was a successful set of one more key: the tier
\* tracks MAX_ENTRIES keys again, the new one among them and the first one
\* evicted.
C31_Witness ==
    /\ cEvent.op = "set"
    /\ cEvent.ok
    /\ cEvent.key = DurableMaxEntries + 1
    /\ cOps = 1
    /\ cNow = 0
    /\ Len(metadata) = DurableMaxEntries
    /\ MetaHas(metadata, DurableMaxEntries + 1)
    /\ ~MetaHas(metadata, 1)
    /\ localStorage[1] = NoItem

\* C32 as stated: a PersistentCache.get(k) that immediately follows a
\* PersistentCache.set(k, v, ttl) whose setItem calls all succeeded returns v.
C32_DurableRoundTrip ==
    [][(cEvent.op = "set" /\ cEvent.ok /\ cEvent'.op = "get"
          /\ cEvent'.key = cEvent.key /\ cNow' = cNow)
       => cEvent'.data = cEvent.data]_vars


(***************************************************************************)
(* Overwrites on the global cache (checked under SpecCache)                *)
(***************************************************************************)

\* C40 as stated: a get(k) made after set(k, ...) calls returns null or the
\* value passed to the most recent set(k, ...), never the value of an
\* earlier set, whatever the durable writes did.
C40_GetNeverStale ==
    (cEvent.op = "get" /\ lastSet[cEvent.key].by = "set")
    => cEvent.data \in {NoData, lastSet[cEvent.key].data}


(***************************************************************************)
(* Interleaved calls of wrapped functions (checked under SpecWithCache)    *)
(***************************************************************************)

\* The callers whose call for key is waiting for fn.
Computing(key) == {q \in WcCallers : wcPc[q] = "awaitFn" /\ wcKey[q] = key}

\* C33: a call of a wrapped function that starts while another call for the
\* same key is waiting for its operation, no tier holding the key yet,
\* invokes the operation too (one more invocation in flight for that key);
\* and every invocation that completes stores its result, so that the entry
\* the fast tier holds (and a get returns) afterwards is the result of the
\* invocation that completed last; the durable tier holds it too when its
\* write succeeded.
C33_NoCoalescing ==
    [][/\ (/\ cEvent'.op = "call"
           /\ Computing(cEvent'.key) # {}
           /\ ~HeldInMemory(cEvent'.key)
           /\ ~HeldInStorage(cEvent'.key))
          => /\ cEvent'.invoked
             /\ Cardinality({q \in WcCallers : /\ wcPc'[q] = "awaitFn"
                                               /\ wcKey'[q] = cEvent'.key}) =
                   Cardinality(Computing(cEvent'.key)) + 1
       /\ cEvent'.op = "resolve"
          => /\ MemHas(memoryCache', cEvent'.key)
             /\ MemItem(memoryCache', cEvent'.key).data = cEvent'.data
             /\ HybridGet(globalCache', cEvent'.key, cNow).data = cEvent'.data
             /\ (cEvent'.w.w1 = "ok")
                => localStorage'[cEvent'.key].data = cEvent'.data]_vars

\* C33 witness: four operations, two calls for key b that both missed and
\* both invoked the operation, and their two completions; both tiers hold
\* the result of the one that completed last.
C33_Witness ==
    /\ cOps = 4
    /\ stats = [hits |-> 0, misses |-> 2, sets |-> 2]
    /\ \A p \in WcCallers : wcPc[p] = "idle" /\ wcKey[p] = "b"
    /\ cEvent.op = "resolve"
    /\ MemItem(memoryCache, "b").data = cEvent.data
    /\ localStorage["b"].data = cEvent.data

\* C39 as stated: the completion of a wrapped call for k that was waiting for
\* its operation when cacheManager.delete(k) was called (here: it completes
\* right after the delete) does not put k back: no tier holds k afterwards.
C39_DeleteNotUndone ==
    [][(cEvent.op = "delete" /\ cEvent'.op = "resolve"
          /\ cEvent'.key = cEvent.key)
       => /\ ~MemHas(memoryCache', cEvent.key)
          /\ localStorage'[cEvent.key] = NoItem]_vars


(***************************************************************************)
(* Failures of the substituting functions (checked under SpecFallback)     *)
(***************************************************************************)

\* C35 as stated: when all retry attempts of the remote operation of a
\* wrapped function fail, the call stores nothing (both tiers are as they
\* were), and the next call for the key invokes the operation again.
C35_FailedCallNotStored ==
    [][/\ cEvent'.op = "failed"
          => /\ memoryCache' = memoryCache
             /\ localStorage' = localStorage
             /\ metadata' = metadata
       /\ (cEvent.op = "failed" /\ cEvent'.op = "call"
             /\ cEvent'.key = cEvent.key)
          => cEvent'.invoked]_vars


(***************************************************************************)
(* Interleaved callers of one CircuitBreaker (checked under SpecBreaker)   *)
(***************************************************************************)

\* C36 as stated: while the trial call that moved the breaker from OPEN to
\* HALF_OPEN has not completed (here: right after its execute), an execute
\* call of another caller does not invoke its operation.
C36_ProbeExclusive ==
    [][(/\ cbEvent.kind = "execute"
        /\ cbEvent.from = "OPEN"
        /\ cbPc[cbEvent.caller] = "awaitOp"
        /\ cbEvent'.kind \in {"execute", "rejected"}
        /\ cbEvent'.caller # cbEvent.caller)
       => /\ cbEvent'.kind = "rejected"
          /\ cbPc'[cbEvent'.caller] = "idle"]_vars

\* C37: in every reachable state of a breaker (failureThreshold >= 1; a
\* configured 0 means the default), whatever the interleaving of the callers:
\* CLOSED implies failureCount < failureThreshold, HALF_OPEN implies
\* successCount < 3, and OPEN implies lastFailureTime is set.
C37_StateInvariants ==
    /\ FailureThreshold >= 1
    /\ cbState = "CLOSED" => cbFailureCount < FailureThreshold
    /\ cbState = "HALF_OPEN" => cbSuccessCount < HalfOpenSuccesses
    /\ cbState = "OPEN" => cbLastFailureTime # NoTime

\* C37 witness: a success of one caller has just closed the breaker from
\* HALF_OPEN while the other caller's operation is still running.
C37_Witness ==
    /\ cbState = "CLOSED"
    /\ cbEvent.kind = "success"
    /\ cbEvent.from = "HALF_OPEN"
    /\ cbSuccessCount = HalfOpenSuccesses
    /\ cbFailureCount = 0
    /\ cbLastFailureTime # NoTime
    /\ \E c \in CbCallers : cbPc[c] = "awaitOp"


(***************************************************************************)
(* Recovery of the CircuitBreaker (checked under SpecRecover)              *)
(***************************************************************************)

\* C38: once every operation that settles succeeds (and callers keep calling
\* execute, operations keep settling and time keeps passing, the fairness of
\* SpecRecover), the breaker eventually is CLOSED and stays CLOSED.
C38_Recovers == cbHealed ~> [](cbState = "CLOSED")

\* C38 witness: after the recovery of the service the breaker, which was
\* still OPEN when the clock passed MaxNow, has been closed by a success in
\* HALF_OPEN.
C38_Witness ==
    /\ cbHealed
    /\ cbState = "CLOSED"
    /\ cbEvent.kind = "success"
    /\ cbEvent.from = "HALF_OPEN"
    /\ cbNow > MaxNow



(***************************************************************************)
(* A retry sequence run through a breaker (checked under SpecGated)        *)
(***************************************************************************)

\* C34 as stated: a retry sequence whose j-th failure opens the breaker
\* invokes op exactly j times, whatever the backoff sleeps and the
\* resetTimeout of the breaker are.
C34_OpInvokedUpToOpening ==
    (rPc \in {"resolved", "rejected"} /\ gOpenedAt > 0)
        => gOpCalls = gOpenedAt

\* C34, amended: an attempt made while the breaker is OPEN and no more than
\* resetTimeout after the latest failure does not invoke op: execute rejects
\* it and the breaker stays OPEN. A settled sequence whose j-th failure
\* opened the breaker, and whose later attempts were all made within
\* resetTimeout of that failure, has invoked op exactly j times; it has
\* consumed all maxAttempts attempts when every error it caught, the
\* breaker's included, satisfied the retry condition.
C34_GatedWithinCooldown ==
    [][/\ (/\ rCalls' = rCalls + 1
           /\ cbState = "OPEN"
           /\ cbNow - cbLastFailureTime <= ResetTimeout)
          => (/\ gOpCalls' = gOpCalls
              /\ cbEvent'.kind = "rejected"
              /\ cbState' = "OPEN"
              /\ cbPc'[GatedCaller] = "idle")
       /\ (/\ rPc' \in {"resolved", "rejected"}
           /\ gOpenedAt' > 0
           /\ gWithin')
          => (/\ gOpCalls' = gOpenedAt'
              /\ rAllRetryable' => rCalls' = rPolicy'.maxAttempts)]_vars

\* C34 witness: the first failure of op opened the breaker, the two attempts
\* that remained were made within resetTimeout and rejected by the breaker,
\* and the sequence ended with the breaker's error after three attempts and
\* one invocation of op.
C34_Witness ==
    /\ rPc = "rejected"
    /\ gOpenedAt = 1
    /\ gWithin
    /\ gOpCalls = 1
    /\ rCalls = 3
    /\ rOutcome.error = BreakerOpenError
    /\ cbState = "OPEN"

====
